---- MODULE Spec2Model ----
(***************************************************************************)
(* Model of the i915 perf-configs code generators of intel-gpu-tools:      *)
(*   lib/i915/perf-configs/codegen.py                (Counter, Set, Gen)   *)
(*   lib/i915/perf-configs/perf-equations-codegen.py (equations generator) *)
(*   lib/i915/perf-configs/perf-metricset-codegen.py (metric-set generator)*)
(*                                                                         *)
(* Texts are TLA+ strings, an equation is the sequence of its tokens       *)
(* (equation.split()), an emitted C statement is a record that keeps the   *)
(* fields the format string of its emitter fills in.                       *)
(***************************************************************************)
EXTENDS Integers, Sequences, FiniteSets, TLC

VARIABLES
    \* ---- Gen.output_rpn_equation_code, one call (SpecEq) ----
    equation,   \* the equation being compiled: its token sequence
    pos,        \* number of tokens scanned so far
    stack,      \* the operand stack (texts)
    tmp_id,     \* next free temporary id
    code,       \* statements emitted to self.c by this call
    eq_pc,      \* "scan" | "done" | "raised" | "idle"
    eq_err,     \* the exception raised, NoErr when none
    \* ---- perf-equations-codegen.py, one run (SpecGen) ----
    gen_args,   \* args: the --header and --code paths, None when omitted
    gen_tables, \* per Gen object: its ops, exp_ops and hw_vars
    gens,       \* the parsed XML: sequence of generations
    hashes,     \* per counter: read_hash / max_hash after Set.__init__
    hashed_funcs, \* the memoization table: hash -> symbol
    c_out,      \* what was written to the Codegen c (implementation)
    h_out,      \* what was written to the Codegen h (declarations)
    gen_pc,     \* position of the run
    visit,      \* index of the next counter function to visit in the pass
    gen_err,    \* the exception that aborted the run, NoErr when none
    \* ---- perf-metricset-codegen.py, one run (SpecMs) ----
    ms_gen,     \* the parsed XML file: chipset and <set> elements
    ms_s,       \* index of the Set the loop of line 111 is at
    ms_sorted,  \* sorted(set.counters, key=symbol_name)
    ms_out,     \* what was written to the Codegen c
    ms_pc,      \* position of the run
    ms_i,       \* index of the next counter in the current loop
    ms_err,     \* the exception that aborted the run, NoErr when none
    \* ---- one availability guard: output_availability_funcs and a call of
    \* ---- the guard function it wrote (SpecSp) ----
    sp_expr,    \* the availability attribute: its tokens
    sp_res,     \* [c, err]: the lines written and the exception raised
    sp_pc,      \* "call" | "written" | "raised" | "ran" | "idle"
    sp_hw,      \* the value of the hardware variables when the guard runs
    sp_ret,     \* what the guard function returned
    \* ---- Set.__init__, lines 100-101: compute_hashes, call by call (SpecHash) ----
    hs_set,     \* the <set> element
    hs_hash,    \* per counter: read_hash and max_hash, set or still None
    hs_writes,  \* per counter: how often read_hash and max_hash were assigned
    hs_stack,   \* the compute_hashes calls in progress, innermost last
    hs_k,       \* index of the next counter of the loop of line 100
    hs_pc,      \* "build" | "done" | "overflow" | "idle"
    \* ---- TestList.expand_subtest, one call (SpecExpand) ----
    ex_doc,     \* self.doc[test]: its fields, its subtests and their arguments
    allow_inherit, \* the parameter allow_inherit
    ex_s,       \* index of the subtest the loop of line 411 is at
    arg_array,  \* per argument: the sorted values, of the subtest being expanded
    ex_pos,     \* pos: per wildcard, the index of the value in use
    subtest_array, \* the expanded subtests appended so far
    ex_pc,      \* "loop" | "expand" | "done" | "exit" | "raised" | "idle"
    ex_err,     \* the message of sys.exit or the exception raised
    \* ---- list_undocumented_tests.py, one run (SpecUndoc) ----
    ud_tests,   \* per test binary of the test list: the lines of --describe
    ud_t,       \* index of the test the loop of main is at
    ud_line,    \* number of lines of the output get_subtests has read
    ud_output,  \* output: the Subtest tuples collected by get_subtests
    description, \* the description being collected
    current_subtest, \* the subtest being described, None before the first
    ud_printed, \* what main printed, line by line
    ud_pc       \* "describe" | "report" | "done" | "idle"

eqVars  == <<equation, pos, stack, tmp_id, code, eq_pc, eq_err>>
genVars == <<gen_args, gen_tables, gens, hashes, hashed_funcs, c_out, h_out, gen_pc, visit, gen_err>>
msVars  == <<ms_gen, ms_s, ms_sorted, ms_out, ms_pc, ms_i, ms_err>>
spVars  == <<sp_expr, sp_res, sp_pc, sp_hw, sp_ret>>
hsVars  == <<hs_set, hs_hash, hs_writes, hs_stack, hs_k, hs_pc>>
exVars  == <<ex_doc, allow_inherit, ex_s, arg_array, ex_pos, subtest_array, ex_pc, ex_err>>
udVars  == <<ud_tests, ud_t, ud_line, ud_output, description, current_subtest, ud_printed, ud_pc>>
vars    == <<eqVars, genVars, msVars, spVars, hsVars, exVars, udVars>>

\* The variables a run of one program leaves alone: those of the others
eqOther  == <<genVars, msVars, spVars, hsVars, exVars, udVars>>
genOther == <<eqVars, msVars, spVars, hsVars, exVars, udVars>>
msOther  == <<eqVars, genVars, spVars, hsVars, exVars, udVars>>
spOther  == <<eqVars, genVars, msVars, hsVars, exVars, udVars>>
hsOther  == <<eqVars, genVars, msVars, spVars, exVars, udVars>>
exOther  == <<eqVars, genVars, msVars, spVars, hsVars, udVars>>
udOther  == <<eqVars, genVars, msVars, spVars, hsVars, exVars>>

-----------------------------------------------------------------------------
(* Bounds of the model.                                                    *)

\* A run of the metric-set generator reads at most MaxMsCounters <counter>
\* elements, in one or two sets of one XML file.
MaxMsCounters == 3

\* A Set is built from at most MaxHashCounters <counter> elements; a chain
\* of more than MaxHashDepth compute_hashes calls in progress is taken to be
\* recursion without bound.
MaxHashCounters == 3
MaxHashDepth == 12

\* Every availability expression of at most MaxSpTokens tokens over SpTokens
\* is spliced.
MaxSpTokens == 3

\* Every equation of at most MaxTokens tokens over EqTokens is compiled.
MaxTokens == 3

\* A run of the equations generator reads at most MaxCounters <counter>
\* elements, spread over sets and XML files in every way.
MaxCounters == 2

-----------------------------------------------------------------------------
(* Small helpers on sequences and texts.                                   *)

Last(s) == s[Len(s)]
Front(s) == SubSeq(s, 1, Len(s) - 1)

RECURSIVE Join(_)
\* ' '.join(tokens): the equation text of a token sequence
Join(toks) ==
    IF Len(toks) = 0 THEN ""
    ELSE IF Len(toks) = 1 THEN toks[1]
    ELSE toks[1] \o " " \o Join(Tail(toks))

\* An exception message as the sequence of the texts it concatenates.
NoErr == <<>>
Contains(msg, text) == \E i \in 1..Len(msg) : msg[i] = text

-----------------------------------------------------------------------------
(* codegen.py: Counter and Set.                                            *)
(* An XML <counter> element is a record of its attributes; an equation     *)
(* attribute is kept as its token sequence, <<>> for an absent or empty    *)
(* attribute.  An XML <set> element is a record with its attributes and    *)
(* the sequence of its <counter> children.                                 *)

\* Identifiers that may follow a "$" in the model's equations.
SymbolUniverse == {"A", "B", "C", "X", "SliceMask"}

\* Counter.__init__: the read symbol
CounterReadSym(chipset, xmlset, xml) ==
    chipset \o "__" \o xmlset.underscore_name \o "__" \o xml.underscore_name \o "__read"

\* Counter.__init__: the max symbol
CounterMaxSym(chipset, xmlset, xml) ==
    IF xml.max_equation = <<>> THEN "NULL /* undefined */"
    ELSE IF Join(xml.max_equation) = "100"
         THEN "percentage_max_callback_" \o xml.data_type
    ELSE chipset \o "__" \o xmlset.underscore_name \o "__" \o xml.underscore_name \o "__max"

\* Counter.__init__: the Counter object of the i-th <counter> of a <set>
Counter(chipset, xmlset, i) ==
    LET xml == xmlset.counters[i] IN
    [ xml      |-> xml,
      read_sym |-> CounterReadSym(chipset, xmlset, xml),
      max_sym  |-> CounterMaxSym(chipset, xmlset, xml) ]

\* Set.__init__, lines 86-98: the counters and the three maps.  A later
\* counter with the same symbol_name overwrites the map entries of an earlier
\* one, as the dict assignments do.
LastWith(xmlset, sym) ==
    CHOOSE i \in 1..Len(xmlset.counters) :
        /\ xmlset.counters[i].symbol_name = sym
        /\ \A j \in (i+1)..Len(xmlset.counters) : xmlset.counters[j].symbol_name # sym

SetSymbols(xmlset) == { xmlset.counters[i].symbol_name : i \in 1..Len(xmlset.counters) }

SetInit(chipset, xmlset) ==
    [ name            |-> xmlset.name,
      symbol_name     |-> xmlset.symbol_name,
      underscore_name |-> xmlset.underscore_name,
      chipset         |-> chipset,
      counters        |-> [ i \in 1..Len(xmlset.counters) |-> Counter(chipset, xmlset, i) ],
      counter_vars    |-> [ v \in { "$" \o s : s \in SetSymbols(xmlset) } |->
                              LastWith(xmlset, CHOOSE s \in SetSymbols(xmlset) : "$" \o s = v) ],
      max_funcs       |-> [ s \in SetSymbols(xmlset) |->
                              Counter(chipset, xmlset, LastWith(xmlset, s)).max_sym ],
      read_funcs      |-> [ s \in SetSymbols(xmlset) |->
                              Counter(chipset, xmlset, LastWith(xmlset, s)).read_sym ] ]

-----------------------------------------------------------------------------
(* codegen.py: Gen, the operator tables and the hardware variables.        *)

\* Gen.__init__: self.ops, name -> number of operands
ops ==
    [ FADD |-> 2, FDIV |-> 2, FMAX |-> 2, FMUL |-> 2, FSUB |-> 2,
      READ |-> 2, READ_REG |-> 1,
      UADD |-> 2, UDIV |-> 2, UMUL |-> 2, USUB |-> 2, UMIN |-> 2,
      AND |-> 2 ] @@ ("<<" :> 2) @@ (">>" :> 2)

\* exp_ops with a logical or besides the four operators
exp_ops_with_or ==
    [ AND |-> 2, UGTE |-> 2, ULT |-> 2, OR |-> 2 ] @@ ("&&" :> 2)

\* Gen.__init__: self.exp_ops, name -> number of operands
exp_ops ==
    [ AND |-> 2, UGTE |-> 2, ULT |-> 2 ] @@ ("&&" :> 2)

\* Gen.__init__: self.hw_vars, name -> its 'c' text
hw_vars ==
    ("$EuCoresTotalCount"      :> "perf->devinfo.n_eus") @@
    ("$EuSlicesTotalCount"     :> "perf->devinfo.n_eu_slices") @@
    ("$EuSubslicesTotalCount"  :> "perf->devinfo.n_eu_sub_slices") @@
    ("$EuThreadsCount"         :> "perf->devinfo.eu_threads_count") @@
    ("$SliceMask"              :> "perf->devinfo.slice_mask") @@
    ("$DualSubsliceMask"       :> "perf->devinfo.subslice_mask") @@
    ("$SubsliceMask"           :> "perf->devinfo.subslice_mask") @@
    ("$GpuTimestampFrequency"  :> "perf->devinfo.timestamp_frequency") @@
    ("$GpuMinFrequency"        :> "perf->devinfo.gt_min_freq") @@
    ("$GpuMaxFrequency"        :> "perf->devinfo.gt_max_freq") @@
    ("$SkuRevisionId"          :> "perf->devinfo.revision") @@
    ("$QueryMode"              :> "perf->devinfo.query_mode")

\* operand[0] == "$", over the texts the model's equations can hold
DollarTokens == DOMAIN hw_vars \cup { "$" \o s : s \in SymbolUniverse }
IsDollar(operand) == operand \in DollarTokens

\* operand[1:] of a "$" token
StripDollar(operand) == CHOOSE s \in SymbolUniverse : "$" \o s = operand

\* "tmp{0}".format(n)
TmpName(n) == "tmp" \o ToString(n)

\* str.lower() of an operand text: the texts of the model are lower case but
\* for the accumulator type letters
Lower(text) ==
    CASE text = "A" -> "a" [] text = "B" -> "b" [] text = "C" -> "c" [] OTHER -> text

\* An emitted C statement.  form names the right-hand side of the format
\* string, x and y are the texts put in its first and second place:
\*   "+" "-" "*" "<<" ">>" "&" :  x <form> y
\*   "MIN" "MAX"               :  <form>(x, y)
\*   "copy"                    :  x
\*   "divz"                    :  y ? x / y : 0
\*   "zero"                    :  0
\*   "read"                    :  accumulator[metric_set->x_offset + y]
Decl(ctype, id, form, x, y) ==
    [ k |-> "decl", ctype |-> ctype, name |-> TmpName(id), form |-> form, x |-> x, y |-> y ]
Comment(text) ==
    [ k |-> "comment", ctype |-> "", name |-> "", form |-> "", x |-> text, y |-> "" ]
Return(value) ==
    [ k |-> "return", ctype |-> "", name |-> "", form |-> "", x |-> value, y |-> "" ]

\* args[i] of the Python list args (0-based)
Arg(args, i) == args[i + 1]

emit_fadd(tid, args) ==
    [ c |-> << Decl("double", tid, "+", Arg(args, 1), Arg(args, 0)) >>, ret |-> tid + 1 ]

\* emit_fdiv that hands back the id of its last temporary instead of the
\* next free one
emit_fdiv_last_id(tid, args) ==
    [ c |-> << Decl("double", tid, "copy", Arg(args, 1), ""),
               Decl("double", tid + 1, "copy", Arg(args, 0), ""),
               Decl("double", tid + 2, "divz", TmpName(tid), TmpName(tid + 1)) >>,
      ret |-> tid + 2 ]

emit_fdiv(tid, args) ==
    [ c |-> << Decl("double", tid, "copy", Arg(args, 1), ""),
               Decl("double", tid + 1, "copy", Arg(args, 0), ""),
               Decl("double", tid + 2, "divz", TmpName(tid), TmpName(tid + 1)) >>,
      ret |-> tid + 3 ]

emit_fmax(tid, args) ==
    [ c |-> << Decl("double", tid, "copy", Arg(args, 1), ""),
               Decl("double", tid + 1, "copy", Arg(args, 0), ""),
               Decl("double", tid + 2, "MAX", TmpName(tid), TmpName(tid + 1)) >>,
      ret |-> tid + 3 ]

emit_fmul(tid, args) ==
    [ c |-> << Decl("double", tid, "*", Arg(args, 1), Arg(args, 0)) >>, ret |-> tid + 1 ]

emit_fsub(tid, args) ==
    [ c |-> << Decl("double", tid, "-", Arg(args, 1), Arg(args, 0)) >>, ret |-> tid + 1 ]

\* emit_read with the two operands in each other's place
emit_read_swapped(tid, args) ==
    [ c |-> << Decl("uint64_t", tid, "read", Lower(Arg(args, 0)), Arg(args, 1)) >>,
      ret |-> tid + 1 ]

emit_read(tid, args) ==
    [ c |-> << Decl("uint64_t", tid, "read", Lower(Arg(args, 1)), Arg(args, 0)) >>,
      ret |-> tid + 1 ]

emit_read_reg(tid, args) ==
    [ c |-> << Decl("uint64_t", tid, "zero", "", "") >>, ret |-> tid + 1 ]

emit_uadd(tid, args) ==
    [ c |-> << Decl("uint64_t", tid, "+", Arg(args, 1), Arg(args, 0)) >>, ret |-> tid + 1 ]

\* emit_udiv without the check for a zero denominator
emit_udiv_unchecked(tid, args) ==
    [ c |-> << Decl("uint64_t", tid, "/", Arg(args, 1), Arg(args, 0)) >>, ret |-> tid + 1 ]

emit_udiv(tid, args) ==
    [ c |-> << Decl("uint64_t", tid, "copy", Arg(args, 1), ""),
               Decl("uint64_t", tid + 1, "copy", Arg(args, 0), ""),
               Decl("uint64_t", tid + 2, "divz", TmpName(tid), TmpName(tid + 1)) >>,
      ret |-> tid + 3 ]

emit_umul(tid, args) ==
    [ c |-> << Decl("uint64_t", tid, "*", Arg(args, 1), Arg(args, 0)) >>, ret |-> tid + 1 ]

\* emit_usub with the operands in the order they were popped
emit_usub_swapped(tid, args) ==
    [ c |-> << Decl("uint64_t", tid, "-", Arg(args, 0), Arg(args, 1)) >>, ret |-> tid + 1 ]

emit_usub(tid, args) ==
    [ c |-> << Decl("uint64_t", tid, "-", Arg(args, 1), Arg(args, 0)) >>, ret |-> tid + 1 ]

emit_umin(tid, args) ==
    [ c |-> << Decl("uint64_t", tid, "MIN", Arg(args, 1), Arg(args, 0)) >>, ret |-> tid + 1 ]

emit_lshft(tid, args) ==
    [ c |-> << Decl("uint64_t", tid, "<<", Arg(args, 1), Arg(args, 0)) >>, ret |-> tid + 1 ]

emit_rshft(tid, args) ==
    [ c |-> << Decl("uint64_t", tid, ">>", Arg(args, 1), Arg(args, 0)) >>, ret |-> tid + 1 ]

emit_and(tid, args) ==
    [ c |-> << Decl("uint64_t", tid, "&", Arg(args, 1), Arg(args, 0)) >>, ret |-> tid + 1 ]

\* self.ops[op][1](tmp_id, args): the emitter the table holds for op
Callback(op, tid, args) ==
    CASE op = "FADD" -> emit_fadd(tid, args)
      [] op = "FDIV" -> emit_fdiv(tid, args)
      [] op = "FMAX" -> emit_fmax(tid, args)
      [] op = "FMUL" -> emit_fmul(tid, args)
      [] op = "FSUB" -> emit_fsub(tid, args)
      [] op = "READ" -> emit_read(tid, args)
      [] op = "READ_REG" -> emit_read_reg(tid, args)
      [] op = "UADD" -> emit_uadd(tid, args)
      [] op = "UDIV" -> emit_udiv(tid, args)
      [] op = "UMUL" -> emit_umul(tid, args)
      [] op = "USUB" -> emit_usub(tid, args)
      [] op = "UMIN" -> emit_umin(tid, args)
      [] op = "<<" -> emit_lshft(tid, args)
      [] op = ">>" -> emit_rshft(tid, args)
      [] op = "AND" -> emit_and(tid, args)

-----------------------------------------------------------------------------
(* codegen.py: Gen.output_rpn_equation_code.                               *)
(* The state of one call is a record                                       *)
(*   [stack, tmp_id, code, err]                                            *)
(* err is NoErr while the call runs and the exception once one is raised.  *)

\* IndexError of list.pop() on an empty list
IndexError == << "IndexError", "pop from empty list" >>

\* lines 289: the exception of an unresolvable variable
ResolveError(set, counter, eq, operand) ==
    << "Exception", "Failed to resolve variable ", operand, " in equation ", Join(eq),
       " for ", set.name, " :: ", counter.xml.name >>

\* lines 298-300: the exception of a stack that does not hold one value
SpuriousError(set, counter, eq) ==
    << "Exception", "Spurious empty rpn code for ", set.name, " :: ", counter.xml.name,
       ".\nThis is probably due to some unhandled RPN function, in the equation \"",
       Join(eq), "\"" >>

\* lines 282-289: the text of one popped operand, or the exception
ResolveOperand(set, counter, eq, operand) ==
    IF IsDollar(operand)
    THEN IF operand \in DOMAIN hw_vars
         THEN [ text |-> hw_vars[operand], err |-> NoErr ]
         ELSE IF operand \in DOMAIN set.counter_vars
         THEN [ text |-> set.read_funcs[StripDollar(operand)]
                            \o "(perf, metric_set, accumulator)",
                err |-> NoErr ]
         ELSE [ text |-> operand, err |-> ResolveError(set, counter, eq, operand) ]
    ELSE [ text |-> operand, err |-> NoErr ]

RECURSIVE PopArgs(_, _, _, _, _, _)
\* lines 279-290: pop argc operands off st, resolving each as it is popped
PopArgs(set, counter, eq, st, argc, args) ==
    IF argc = 0 THEN [ stack |-> st, args |-> args, err |-> NoErr ]
    ELSE IF Len(st) = 0 THEN [ stack |-> st, args |-> args, err |-> IndexError ]
    ELSE LET r == ResolveOperand(set, counter, eq, Last(st)) IN
         IF r.err # NoErr THEN [ stack |-> Front(st), args |-> args, err |-> r.err ]
         ELSE PopArgs(set, counter, eq, Front(st), argc - 1, Append(args, r.text))

\* lines 277-295: one turn of the while loop, the operator on top of the stack
ReduceTop(set, counter, eq, cs) ==
    LET op == Last(cs.stack)
        p  == PopArgs(set, counter, eq, Front(cs.stack), ops[op], <<>>)
    IN  IF p.err # NoErr
        THEN [ cs EXCEPT !.stack = p.stack, !.err = p.err ]
        ELSE LET e == Callback(op, cs.tmp_id, p.args) IN
             [ stack  |-> Append(p.stack, TmpName(e.ret - 1)),
               tmp_id |-> e.ret,
               code   |-> cs.code \o e.c,
               err    |-> NoErr ]

RECURSIVE WhileOps(_, _, _, _)
\* line 276: while stack and stack[-1] in self.ops
WhileOps(set, counter, eq, cs) ==
    IF cs.err = NoErr /\ Len(cs.stack) > 0 /\ Last(cs.stack) \in DOMAIN ops
    THEN WhileOps(set, counter, eq, ReduceTop(set, counter, eq, cs))
    ELSE cs

\* lines 268-272: the comment and the empty stack
BeginEquation(eq) ==
    [ stack  |-> <<>>,
      tmp_id |-> 0,
      code   |-> << Comment("/* RPN equation: " \o Join(eq) \o " */") >>,
      err    |-> NoErr ]

\* lines 274-295: the body of the for loop for one token
ScanToken(set, counter, eq, cs, token) ==
    WhileOps(set, counter, eq, [ cs EXCEPT !.stack = Append(cs.stack, token) ])

\* lines 302-307: the value returned, after the two substitutions
FinalValue(set, value) ==
    LET v1 == IF value \in DOMAIN hw_vars THEN hw_vars[value] ELSE value IN
    IF v1 \in DOMAIN set.counter_vars
    THEN set.read_funcs[StripDollar(v1)] \o "(perf, metric_set, accumulator)"
    ELSE v1

\* FinishEquation that only refuses an empty stack
FinishEquation_any_depth(set, counter, eq, cs) ==
    IF Len(cs.stack) = 0
    THEN [ cs EXCEPT !.err = SpuriousError(set, counter, eq) ]
    ELSE [ cs EXCEPT !.code = Append(cs.code, Return(FinalValue(set, Last(cs.stack)))) ]

\* lines 297-309: after the scan
FinishEquation(set, counter, eq, cs) ==
    IF Len(cs.stack) # 1
    THEN [ cs EXCEPT !.err = SpuriousError(set, counter, eq) ]
    ELSE [ cs EXCEPT !.code = Append(cs.code, Return(FinalValue(set, Last(cs.stack)))) ]

RECURSIVE ScanAll(_, _, _, _, _)
ScanAll(set, counter, eq, cs, i) ==
    IF cs.err # NoErr \/ i > Len(eq) THEN cs
    ELSE ScanAll(set, counter, eq, ScanToken(set, counter, eq, cs, eq[i]), i + 1)

\* The whole call: what it wrote to self.c and the exception it raised, if any
output_rpn_equation_code(set, counter, eq) ==
    LET cs == ScanAll(set, counter, eq, BeginEquation(eq), 1) IN
    IF cs.err # NoErr THEN cs ELSE FinishEquation(set, counter, eq, cs)

-----------------------------------------------------------------------------
(* The values the variables of a generator hold while it is not running.   *)

GenIdle ==
    /\ gen_args = <<>> /\ gen_tables = <<>>
    /\ gens = <<>> /\ hashes = <<>> /\ hashed_funcs = <<>>
    /\ c_out = <<>> /\ h_out = <<>> /\ gen_pc = "idle" /\ visit = 0 /\ gen_err = NoErr

MsIdle ==
    /\ ms_gen = <<>> /\ ms_s = 0 /\ ms_sorted = <<>> /\ ms_out = <<>>
    /\ ms_pc = "idle" /\ ms_i = 0 /\ ms_err = NoErr

EqIdle ==
    /\ equation = <<>> /\ pos = 0 /\ stack = <<>> /\ tmp_id = 0
    /\ code = <<>> /\ eq_pc = "idle" /\ eq_err = NoErr

SpIdle ==
    /\ sp_expr = <<>> /\ sp_res = <<>> /\ sp_pc = "idle" /\ sp_hw = 0 /\ sp_ret = FALSE

HsIdle ==
    /\ hs_set = <<>> /\ hs_hash = <<>> /\ hs_writes = <<>> /\ hs_stack = <<>>
    /\ hs_k = 0 /\ hs_pc = "idle"

ExIdle ==
    /\ ex_doc = <<>> /\ allow_inherit = FALSE /\ ex_s = 0 /\ arg_array = <<>>
    /\ ex_pos = <<>> /\ subtest_array = <<>> /\ ex_pc = "idle" /\ ex_err = NoErr

UdIdle ==
    /\ ud_tests = <<>> /\ ud_t = 0 /\ ud_line = 0 /\ ud_output = <<>>
    /\ description = <<>> /\ current_subtest = "" /\ ud_printed = <<>> /\ ud_pc = "idle"

-----------------------------------------------------------------------------
(* SpecEq: one call of Gen.output_rpn_equation_code, token by token.       *)

\* The numeric literals of the model's equations
Literals == {"0", "3", "10"}

\* The operators of self.ops that compute a value from two values
ArithOps == DOMAIN ops \ {"READ", "READ_REG"}

\* The tokens of the model's equations: literals, a hardware variable, a
\* counter of the Set, a variable that names nothing, and every operator
EqTokens == Literals \cup {"$GpuTimestampFrequency", "$A", "$X"} \cup DOMAIN ops

\* Equations of two operators over literals: "a b OP c OP" and "a b c OP OP"
TwoOpEquations ==
    { <<a, b, o1, c, o2>> : a \in Literals, b \in Literals, c \in Literals,
                            o1 \in ArithOps, o2 \in ArithOps }
    \cup
    { <<a, b, c, o1, o2>> : a \in Literals, b \in Literals, c \in Literals,
                            o1 \in ArithOps, o2 \in ArithOps }

\* The accumulator sections a READ names in the XML files
ReadTypes == {"A", "B", "C"}

\* Reads of the accumulator, alone and as the operand of a sum
ReadEquations ==
    { <<t, n, "READ">> : t \in ReadTypes, n \in Literals }
    \cup
    { <<t, n, "READ", m, "UADD">> : t \in ReadTypes, n \in Literals, m \in Literals }

Equations ==
    UNION { [1..n -> EqTokens] : n \in 0..MaxTokens } \cup TwoOpEquations
    \cup ReadEquations

\* The Set the compiled counter belongs to: counter A, and counter B whose
\* equation is the one compiled
EqXmlCounter(sym, us, name) ==
    [ symbol_name |-> sym, underscore_name |-> us, name |-> name,
      equation |-> <<"10">>, max_equation |-> <<>>, data_type |-> "uint64",
      availability |-> <<>> ]

EqXmlSet ==
    [ name |-> "Render Metrics Basic", symbol_name |-> "RenderBasic",
      underscore_name |-> "render_basic",
      counters |-> << EqXmlCounter("A", "a", "GPU Time Elapsed"),
                      EqXmlCounter("B", "b", "GPU Busy") >> ]

EqSet == SetInit("tgl", EqXmlSet)
EqCounter == EqSet.counters[2]

EqState == [ stack |-> stack, tmp_id |-> tmp_id, code |-> code, err |-> eq_err ]

EqInit ==
    /\ equation \in Equations
    /\ pos = 0 /\ stack = <<>> /\ tmp_id = 0 /\ code = <<>>
    /\ eq_pc = "call" /\ eq_err = NoErr
    /\ GenIdle /\ MsIdle /\ SpIdle /\ HsIdle /\ ExIdle /\ UdIdle

\* lines 268-272
EqBegin ==
    /\ eq_pc = "call"
    /\ LET cs == BeginEquation(equation) IN
         /\ stack' = cs.stack /\ tmp_id' = cs.tmp_id /\ code' = cs.code
    /\ eq_pc' = "scan"
    /\ UNCHANGED <<equation, pos, eq_err, eqOther>>

\* lines 274-295: the next token, with the operator it may complete
EqScan ==
    /\ eq_pc = "scan" /\ pos < Len(equation)
    /\ LET cs == ScanToken(EqSet, EqCounter, equation, EqState, equation[pos + 1]) IN
         /\ stack' = cs.stack /\ tmp_id' = cs.tmp_id /\ code' = cs.code
         /\ eq_err' = cs.err
         /\ eq_pc' = IF cs.err = NoErr THEN "scan" ELSE "raised"
    /\ pos' = pos + 1
    /\ UNCHANGED <<equation, eqOther>>

\* lines 297-309: the tokens are exhausted
EqFinish ==
    /\ eq_pc = "scan" /\ pos = Len(equation)
    /\ LET cs == FinishEquation(EqSet, EqCounter, equation, EqState) IN
         /\ stack' = cs.stack /\ tmp_id' = cs.tmp_id /\ code' = cs.code
         /\ eq_err' = cs.err
         /\ eq_pc' = IF cs.err = NoErr THEN "done" ELSE "raised"
    /\ UNCHANGED <<equation, pos, eqOther>>

EqNext == EqBegin \/ EqScan \/ EqFinish

SpecEq == EqInit /\ [][EqNext]_vars

-----------------------------------------------------------------------------
(* What the emitted statements compute, and what the equation denotes.     *)
(* A value is an expression tree: Atom(text) for an operand text that is   *)
(* no temporary, <<form, ctype, left, right>> for an operation in the C    *)
(* type ctype.  Two trees are equal exactly when they denote the same      *)
(* computation on the same operands in the same order.                     *)

Atom(text) == << "atom", text >>
Node(form, ctype, l, r) == << form, ctype, l, r >>
Undefined == << "undefined" >>

\* The value an operand text has where env gives the temporaries declared
OperandValue(env, text) ==
    IF text \in DOMAIN env THEN env[text] ELSE Atom(text)

\* The value one declaration gives its temporary
DeclValue(env, st) ==
    CASE st.form = "copy" -> OperandValue(env, st.x)
      [] st.form = "zero" -> Atom("0")
      [] st.form = "read" -> Node("read", st.ctype, Atom(st.x), OperandValue(env, st.y))
      [] OTHER -> Node(st.form, st.ctype, OperandValue(env, st.x), OperandValue(env, st.y))

RECURSIVE RunStatements(_, _, _)
\* The statements of a function body run in order: the value returned,
\* Undefined when the body ends without a return statement
RunStatements(stmts, i, env) ==
    IF i > Len(stmts) THEN Undefined
    ELSE LET st == stmts[i] IN
         CASE st.k = "comment" -> RunStatements(stmts, i + 1, env)
           [] st.k = "return"  -> OperandValue(env, st.x)
           [] st.k = "decl"    ->
                RunStatements(stmts, i + 1, (st.name :> DeclValue(env, st)) @@ env)

CodeValue(stmts) == RunStatements(stmts, 1, <<>>)

\* The operation each operator mnemonic stands for: unsigned or floating
\* point arithmetic, division yielding 0 for a zero denominator
RpnMeaning(op, l, r) ==
    CASE op = "UADD" -> Node("+", "uint64_t", l, r)
      [] op = "USUB" -> Node("-", "uint64_t", l, r)
      [] op = "UMUL" -> Node("*", "uint64_t", l, r)
      [] op = "UDIV" -> Node("divz", "uint64_t", l, r)
      [] op = "UMIN" -> Node("MIN", "uint64_t", l, r)
      [] op = "FADD" -> Node("+", "double", l, r)
      [] op = "FSUB" -> Node("-", "double", l, r)
      [] op = "FMUL" -> Node("*", "double", l, r)
      [] op = "FDIV" -> Node("divz", "double", l, r)
      [] op = "FMAX" -> Node("MAX", "double", l, r)
      [] op = "<<"   -> Node("<<", "uint64_t", l, r)
      [] op = ">>"   -> Node(">>", "uint64_t", l, r)
      [] op = "AND"  -> Node("&", "uint64_t", l, r)

RECURSIVE RpnStack(_, _, _)
\* Standard RPN evaluation: a literal is pushed, an operator replaces the two
\* topmost values (the lower one its left operand) by its result.  The final
\* stack, << Undefined >> when an operator finds fewer than two values.
RpnStack(toks, i, st) ==
    IF i > Len(toks) THEN st
    ELSE IF toks[i] \in ArithOps
         THEN IF Len(st) < 2 THEN << Undefined, Undefined >>
              ELSE RpnStack(toks, i + 1,
                            Append(SubSeq(st, 1, Len(st) - 2),
                                   RpnMeaning(toks[i], st[Len(st) - 1], st[Len(st)])))
         ELSE RpnStack(toks, i + 1, Append(st, Atom(toks[i])))

RpnWellFormed(toks) == Len(RpnStack(toks, 1, <<>>)) = 1
RpnValue(toks) == RpnStack(toks, 1, <<>>)[1]

LiteralEquation(toks) == \A i \in 1..Len(toks) : toks[i] \in Literals \cup ArithOps

\* The number a literal text spells
LiteralNumber(text) ==
    CASE text = "0" -> 0 [] text = "3" -> 3 [] text = "10" -> 10

RECURSIVE Pow2(_)
Pow2(n) == IF n = 0 THEN 1 ELSE 2 * Pow2(n - 1)

\* The number an expression tree over literals and integer operations
\* denotes, over the integers
Number(v) ==
    LET RECURSIVE Num(_)
        Num(t) ==
            IF t[1] = "atom" THEN LiteralNumber(t[2])
            ELSE LET l == Num(t[3])  r == Num(t[4]) IN
                 CASE t[1] = "+" -> l + r
                   [] t[1] = "-" -> l - r
                   [] t[1] = "*" -> l * r
                   [] t[1] = "divz" -> IF r = 0 THEN 0 ELSE l \div r
                   [] t[1] = "MIN" -> IF l < r THEN l ELSE r
                   [] t[1] = "MAX" -> IF l > r THEN l ELSE r
                   [] t[1] = "<<" -> l * Pow2(r)
                   [] t[1] = ">>" -> l \div Pow2(r)
    IN Num(v)

-----------------------------------------------------------------------------
(* Claims on output_rpn_equation_code.                                     *)

EqEnded == eq_pc \in {"done", "raised"}

\* C1: for every equation of numeric literals and the thirteen arithmetic
\* operators that is well-formed RPN, the call completes and the statements
\* it emitted, run in order, return the value the equation denotes as
\* standard RPN (UDIV and FDIV yielding 0 for a zero denominator); and such
\* an equation that is not well-formed RPN never completes.
C1_CompiledValueIsRpnValue ==
    (EqEnded /\ LiteralEquation(equation)) =>
        IF RpnWellFormed(equation)
        THEN eq_pc = "done" /\ CodeValue(code) = RpnValue(equation)
        ELSE eq_pc = "raised"

C1_Witness ==
    /\ eq_pc = "done"
    /\ equation = <<"10", "3", "USUB", "0", "UDIV">>
    /\ CodeValue(code) =
         Node("divz", "uint64_t",
              Node("-", "uint64_t", Atom("10"), Atom("3")), Atom("0"))
    /\ Number(CodeValue(code)) = 0

\* The non-commutative operators of two operands and the C operation of each
NonCommutative == {"USUB", "FSUB", "UDIV", "FDIV", "<<", ">>"}
IntegerNonCommutative == {"USUB", "UDIV", "<<", ">>"}

DirectNumber(op, a, b) ==
    CASE op = "USUB" -> a - b
      [] op = "UDIV" -> IF b = 0 THEN 0 ELSE a \div b
      [] op = "<<"   -> a * Pow2(b)
      [] op = ">>"   -> a \div Pow2(b)

\* C2: compiling "a b OP" for a non-commutative OP returns an expression
\* whose left operand is a and whose right operand is b; for the integer
\* operators its number is that of a OP b, so "10 3 USUB" yields 7.
C2_OperandOrder ==
    ( /\ eq_pc = "done" /\ Len(equation) = 3
      /\ equation[1] \in Literals /\ equation[2] \in Literals
      /\ equation[3] \in NonCommutative ) =>
        LET v == CodeValue(code) IN
        /\ Len(v) = 4
        /\ v[3] = Atom(equation[1])
        /\ v[4] = Atom(equation[2])
        /\ equation[3] \in IntegerNonCommutative =>
             Number(v) = DirectNumber(equation[3], LiteralNumber(equation[1]),
                                      LiteralNumber(equation[2]))

C2_Witness ==
    /\ eq_pc = "done"
    /\ equation = <<"10", "3", "USUB">>
    /\ Number(CodeValue(code)) = 7

\* The "$" tokens of an equation that name neither a hardware variable nor a
\* counter of the Set
Unresolvable(toks) ==
    { toks[i] : i \in { j \in 1..Len(toks) :
                          /\ IsDollar(toks[j])
                          /\ toks[j] \notin DOMAIN hw_vars
                          /\ toks[j] \notin DOMAIN EqSet.counter_vars } }

\* C5: an equation with an unresolvable "$" token never compiles: the call
\* raises wherever the token stands, the one-token equation included.
C5_UnresolvableAlwaysRaises ==
    (EqEnded /\ Unresolvable(equation) # {}) => eq_pc = "raised"

\* C6: when the scan ends with a stack depth other than 1 the call raises the
\* malformed-equation exception, which names the set, the counter and the
\* equation text, and emits nothing more; with depth 1 it completes and the
\* last statement is the return of the value on the stack.
C6_EndOfScan ==
    [][ (eq_pc = "scan" /\ pos = Len(equation)) =>
          IF Len(stack) # 1
          THEN /\ eq_pc' = "raised"
               /\ eq_err'[2] = "Spurious empty rpn code for "
               /\ Contains(eq_err', EqSet.name)
               /\ Contains(eq_err', EqCounter.xml.name)
               /\ Contains(eq_err', Join(equation))
               /\ code' = code
          ELSE /\ eq_pc' = "done"
               /\ code' = Append(code, Return(FinalValue(EqSet, stack[1])))
               /\ \A i \in 1..Len(code) : code[i].k # "return" ]_vars

C6_Witness ==
    /\ eq_pc = "raised" /\ pos = Len(equation) /\ Len(stack) = 2
    /\ Contains(eq_err, Join(equation))
    /\ \A i \in 1..Len(code) : code[i].k # "return"

\* The number of declarations among the statements
Declared(stmts) == Cardinality({ i \in 1..Len(stmts) : stmts[i].k = "decl" })

\* The names a temporary can have among the statements written so far
TmpNames == { TmpName(n) : n \in 0..(3 * Len(code) + 3) }

\* The temporaries statement i reads
UsedTmps(i) == { code[i].x, code[i].y } \cap TmpNames

\* C18: in one call of output_rpn_equation_code the temporary id starts at 0
\* and only grows, strictly with every operator; the j-th declaration written
\* declares tmp(j-1), so no name is declared twice; the value pushed after an
\* operator is the temporary its emitter declared last; and a statement reads
\* only temporaries declared by earlier statements.
C18_State ==
    eq_pc # "call" =>
        /\ Declared(code) = tmp_id
        /\ \A i \in 1..Len(code) :
              /\ code[i].k = "decl" =>
                    code[i].name = TmpName(Cardinality({ j \in 1..(i - 1) : code[j].k = "decl" }))
              /\ \A v \in UsedTmps(i) :
                    \E j \in 1..(i - 1) : code[j].k = "decl" /\ code[j].name = v
        /\ \A i \in 1..Len(stack) :
              stack[i] \in TmpNames => \E j \in 1..Len(code) :
                                           code[j].k = "decl" /\ code[j].name = stack[i]

C18_Step ==
    /\ eq_pc = "call" => tmp_id' = 0
    /\ eq_pc # "call" => tmp_id' >= tmp_id
    /\ (eq_pc = "scan" /\ Declared(code') > Declared(code)) =>
          /\ tmp_id' > tmp_id
          /\ Last(stack') = Last(code').name
          /\ Last(stack') = TmpName(tmp_id' - 1)

C18_TemporaryIds == []C18_State /\ [][C18_Step]_vars

\* "10 3 UDIV 3 FMAX" compiled: six temporaries, the value returned the last
C18_Witness ==
    /\ eq_pc = "done"
    /\ \E i \in 1..Len(equation) : equation[i] = "UDIV"
    /\ \E i \in 1..Len(equation) : equation[i] = "FMAX"
    /\ tmp_id = 6
    /\ Last(code) = Return("tmp5")

\* The lower-case spelling of an accumulator section
LowerCase == [ A |-> "a", B |-> "b", C |-> "c" ]

C19_FailureCarriesContext ==
    eq_pc = "raised" =>
        /\ Contains(eq_err, EqSet.name)
        /\ Contains(eq_err, EqCounter.xml.name)
        /\ Contains(eq_err, Join(equation))

-----------------------------------------------------------------------------
(* codegen.py: Counter.compute_hashes, run by Set.__init__ (lines 100-101). *)

\* read_hash / max_hash of a counter that has none
NoHash == "<None>"

\* Python's RecursionError, raised when compute_hashes recurses without end
RecursionError == << "RecursionError", "maximum recursion depth exceeded" >>

\* set.counter_vars of the XML set, as Set.__init__ fills it
XmlCounterVars(xmlset) == SetInit("", xmlset).counter_vars

RECURSIVE ReadHash(_, _, _)
RECURSIVE HashTokens(_, _, _, _)
\* ' '.join(map(replace_func, tokens)) while the counters of `active` are
\* inside compute_hashes with read_hash still None: [ok, h], ok FALSE when
\* the recursion never ends
HashTokens(xmlset, toks, k, active) ==
    IF k > Len(toks) THEN [ ok |-> TRUE, h |-> "" ]
    ELSE LET tok  == toks[k]
             cv   == XmlCounterVars(xmlset)
             this == IF IsDollar(tok) /\ tok \in DOMAIN cv
                     THEN ReadHash(xmlset, cv[tok], active)
                     ELSE [ ok |-> TRUE, h |-> tok ]
             rest == HashTokens(xmlset, toks, k + 1, active)
         IN  IF ~this.ok \/ ~rest.ok THEN [ ok |-> FALSE, h |-> "" ]
             ELSE [ ok |-> TRUE,
                    h  |-> IF k = Len(toks) THEN this.h ELSE this.h \o " " \o rest.h ]

\* lines 62-75: the read hash of counter i
ReadHash(xmlset, i, active) ==
    IF i \in active THEN [ ok |-> FALSE, h |-> "" ]
    ELSE HashTokens(xmlset, xmlset.counters[i].equation, 1, active \cup {i})

\* lines 77-79: the max hash of counter i, computed once its read hash is set
MaxHash(xmlset, i) ==
    IF xmlset.counters[i].max_equation = <<>> THEN [ ok |-> TRUE, h |-> NoHash ]
    ELSE LET toks == xmlset.counters[i].max_equation
             cv   == XmlCounterVars(xmlset)
             \* a reference to counter i itself finds its read_hash already set
             RECURSIVE Go(_)
             Go(k) ==
                IF k > Len(toks) THEN [ ok |-> TRUE, h |-> "" ]
                ELSE LET tok  == toks[k]
                         this == IF IsDollar(tok) /\ tok \in DOMAIN cv
                                 THEN ReadHash(xmlset, cv[tok], {})
                                 ELSE [ ok |-> TRUE, h |-> tok ]
                         rest == Go(k + 1)
                     IN  IF ~this.ok \/ ~rest.ok THEN [ ok |-> FALSE, h |-> "" ]
                         ELSE [ ok |-> TRUE,
                                h  |-> IF k = Len(toks) THEN this.h
                                       ELSE this.h \o " " \o rest.h ]
         IN Go(1)

\* compute_hashes of counter i: [ok, read_hash, max_hash]
compute_hashes(xmlset, i) ==
    LET r == ReadHash(xmlset, i, {})
        m == MaxHash(xmlset, i)
    IN  IF r.ok /\ m.ok
        THEN [ ok |-> TRUE, read_hash |-> r.h, max_hash |-> m.h ]
        ELSE [ ok |-> FALSE, read_hash |-> NoHash, max_hash |-> NoHash ]

-----------------------------------------------------------------------------
(* perf-equations-codegen.py: the functions of the equations generator.    *)

\* A line written to a Codegen that is no statement of an equation:
\*   "copyright", "preamble", "blank", "comment", "ctype", "signature", "{",
\*   "}" in the implementation; "copyright", "guard", "ctype", "prototype",
\*   "define" (x aliased to y), "endif" in the declarations
Line(k, x, y) ==
    [ k |-> k, ctype |-> "", name |-> "", form |-> "", x |-> x, y |-> y ]

\* data_type_to_ctype, lines 36-42
data_type_to_ctype(ret_type) ==
    IF ret_type = "uint64" THEN [ ctype |-> "uint64_t", err |-> NoErr ]
    ELSE IF ret_type = "float" THEN [ ctype |-> "double", err |-> NoErr ]
    ELSE [ ctype |-> "",
           err |-> << "Exception", "Unhandled case for mapping \"", ret_type,
                      "\" to a C type" >> ]

\* The state the functions of a pass work on: the memoization table, the two
\* Codegen streams and the exception raised, if any
GenState(hf, c, h) == [ hashed_funcs |-> hf, c |-> c, h |-> h, err |-> NoErr ]

\* hashed_funcs[hash] = sym
Memoize(hf, hash, sym) == (hash :> sym) @@ hf

\* EmitFunction that writes a function only when its equation compiled
EmitFunction_atomic(set, counter, st, hash, sym, eq) ==
    LET t == data_type_to_ctype(counter.xml.data_type)
        r == output_rpn_equation_code(set, counter, eq)
    IN  IF t.err # NoErr THEN [ st EXCEPT !.err = t.err ]
        ELSE IF r.err # NoErr THEN [ st EXCEPT !.err = r.err ]
        ELSE [ st EXCEPT !.c = st.c \o << Line("blank", "", ""),
                                          Line("comment", set.name, counter.xml.name),
                                          Line("ctype", t.ctype, ""),
                                          Line("signature", sym, ""),
                                          Line("{", "", "") >> \o r.code
                                       \o << Line("}", "", "") >>,
                         !.hashed_funcs = Memoize(st.hashed_funcs, hash, sym) ]

\* lines 45-71 and 104-125, after the memoization test: the function
\* definition of symbol sym for equation eq
EmitFunction(set, counter, st, hash, sym, eq) ==
    LET c1 == st.c \o << Line("blank", "", ""),
                         Line("comment", set.name, counter.xml.name) >>
        t  == data_type_to_ctype(counter.xml.data_type)
    IN  IF t.err # NoErr THEN [ st EXCEPT !.c = c1, !.err = t.err ]
        ELSE LET c2 == c1 \o << Line("ctype", t.ctype, ""),
                                Line("signature", sym, ""),
                                Line("{", "", "") >>
                 r  == output_rpn_equation_code(set, counter, eq)
             IN  IF r.err # NoErr
                 THEN [ st EXCEPT !.c = c2 \o r.code, !.err = r.err ]
                 ELSE [ st EXCEPT !.c = c2 \o r.code \o << Line("}", "", "") >>,
                                  !.hashed_funcs = Memoize(st.hashed_funcs, hash, sym) ]

\* output_counter_read without the test of the memoization table
output_counter_read_always(set, counter, hs, st) ==
    EmitFunction(set, counter, st, hs.read_hash, counter.read_sym, counter.xml.equation)

\* output_counter_read, lines 45-71
output_counter_read(set, counter, hs, st) ==
    IF hs.read_hash \in DOMAIN st.hashed_funcs THEN st
    ELSE EmitFunction(set, counter, st, hs.read_hash, counter.read_sym,
                      counter.xml.equation)

\* output_counter_max that only skips an absent max equation
output_counter_max_no_sentinel(set, counter, hs, st) ==
    IF counter.xml.max_equation = <<>> THEN st
    ELSE IF hs.max_hash \in DOMAIN st.hashed_funcs THEN st
    ELSE EmitFunction(set, counter, st, hs.max_hash, counter.max_sym,
                      counter.xml.max_equation)

\* output_counter_max, lines 95-125
output_counter_max(set, counter, hs, st) ==
    IF counter.xml.max_equation = <<>> \/ Join(counter.xml.max_equation) = "100" THEN st
    ELSE IF hs.max_hash \in DOMAIN st.hashed_funcs THEN st
    ELSE EmitFunction(set, counter, st, hs.max_hash, counter.max_sym,
                      counter.xml.max_equation)

\* lines 74-92 and 134-153, after the test of the max equation: the alias or
\* the prototype of symbol sym
\* (trailing: the h("\n") the max variant ends with)
EmitDeclaration(counter, st, hash, sym, trailing) ==
    IF hash \in DOMAIN st.hashed_funcs
    THEN [ st EXCEPT !.h = st.h \o << Line("define", sym, st.hashed_funcs[hash]) >>
                                 \o trailing ]
    ELSE LET t == data_type_to_ctype(counter.xml.data_type) IN
         IF t.err # NoErr THEN [ st EXCEPT !.err = t.err ]
         ELSE [ st EXCEPT !.h = st.h \o << Line("ctype", t.ctype, ""),
                                           Line("prototype", sym, "") >> \o trailing,
                          !.hashed_funcs = Memoize(st.hashed_funcs, hash, sym) ]

\* output_counter_read_definition, lines 74-92
output_counter_read_definition(set, counter, hs, st) ==
    EmitDeclaration(counter, st, hs.read_hash, counter.read_sym, <<>>)

\* output_counter_max_definition, lines 128-153
output_counter_max_definition(set, counter, hs, st) ==
    IF counter.xml.max_equation = <<>> \/ Join(counter.xml.max_equation) = "100" THEN st
    ELSE EmitDeclaration(counter, st, hs.max_hash, counter.max_sym,
                         << Line("blank", "", "") >>)

\* The declarations pass starting with the table the implementation pass left
ResetForHeader_kept(hf) == hf

\* generate_equations, lines 162 and 200: hashed_funcs = {}
ResetForCode(hf) == <<>>
ResetForHeader(hf) == <<>>

-----------------------------------------------------------------------------
(* SpecGen: one run of perf-equations-codegen.py.                          *)
(* The input is a list of at most MaxCounters <counter> elements, each     *)
(* starting a new XML file, a new <set> of the same file, or following the *)
(* previous counter in its set.  Names are given by position.              *)

ChipsetNames == << "tgl", "hsw", "acm", "mtl" >>
SetNames     == << "Render Basic", "Compute Basic", "Memory Reads", "Memory Writes" >>
SetSymNames  == << "RenderBasic", "ComputeBasic", "MemoryReads", "MemoryWrites" >>
SetUsNames   == << "render_basic", "compute_basic", "memory_reads", "memory_writes" >>
CounterSyms  == << "A", "B", "C", "D" >>
CounterUs    == << "a", "b", "c", "d" >>
CounterNames == << "GPU Time Elapsed", "GPU Busy", "EU Active", "EU Stall" >>

\* The equation attribute of a counter: a sum of literals, a reference to
\* counter A of the set, a sum with a variable that names nothing, that
\* variable alone, the literal 100, a sum followed by a value no operator
\* consumes
GenEquations ==
    { <<"10", "3", "UADD">>, <<"$A">>, <<"$X", "3", "UADD">>, <<"$X">>, <<"100">>,
      <<"10", "3", "UADD", "0">> }

\* The max_equation attribute: absent, the percentage sentinel, a sum
GenMaxEquations == { <<>>, <<"100">>, <<"10", "3", "UADD">> }

GenDataTypes == { "uint64", "float", "uint32" }

CounterAttrs ==
    [ equation : GenEquations, max_equation : GenMaxEquations, data_type : GenDataTypes ]

\* Where counter k starts: "file" (a new XML file and set), "set" (a new set
\* of the same file), "same" (the set of counter k - 1)
Breaks == { "file", "set", "same" }

\* The place of counter k of the flat list: file g, set s of it, counter i
\* of that set
FileOf(brk, k) == Cardinality({ j \in 1..k : brk[j] = "file" })
FileStart(brk, k) == CHOOSE j \in 1..k : brk[j] = "file" /\ \A m \in (j+1)..k : brk[m] # "file"
SetOfFile(brk, k) == 1 + Cardinality({ j \in (FileStart(brk, k) + 1)..k : brk[j] = "set" })
SetStart(brk, k) == CHOOSE j \in 1..k : brk[j] # "same" /\ \A m \in (j+1)..k : brk[m] = "same"
IndexInSet(brk, k) == k - SetStart(brk, k) + 1

XmlCounter(i, a) ==
    [ symbol_name |-> CounterSyms[i], underscore_name |-> CounterUs[i],
      name |-> CounterNames[i], equation |-> a.equation,
      max_equation |-> a.max_equation, data_type |-> a.data_type,
      availability |-> <<>> ]

\* The XML files of a flat list of counters
XmlFiles(brk, attrs) ==
    LET n == Len(attrs)
        nf == FileOf(brk, n)
        Ks(g, s) == { k \in 1..n : FileOf(brk, k) = g /\ SetOfFile(brk, k) = s }
        Ns(g) == Cardinality({ SetOfFile(brk, k) : k \in { j \in 1..n : FileOf(brk, j) = g } })
    IN  [ g \in 1..nf |->
            [ chipset |-> ChipsetNames[g],
              sets |-> [ s \in 1..Ns(g) |->
                  [ name |-> SetNames[s], symbol_name |-> SetSymNames[s],
                    underscore_name |-> SetUsNames[s],
                    counters |-> [ i \in 1..Cardinality(Ks(g, s)) |->
                        LET k == CHOOSE j \in Ks(g, s) : IndexInSet(brk, j) = i
                        IN  XmlCounter(i, attrs[k]) ] ] ] ] ]

\* XML files of one set of two counters, one of which has the symbol name
\* SliceMask, the name of a hardware variable, and the other an equation
\* over $SliceMask; in either order
HwNamedInputs ==
    LET Named(e) == [ XmlCounter(1, [ equation |-> e, max_equation |-> <<>>,
                                      data_type |-> "uint64" ])
                        EXCEPT !.symbol_name = "SliceMask", !.underscore_name = "slice_mask" ]
        Other(e) == XmlCounter(2, [ equation |-> e, max_equation |-> <<>>,
                                    data_type |-> "uint64" ])
        File(cs) == << [ chipset |-> ChipsetNames[1],
                         sets |-> << [ name |-> SetNames[1], symbol_name |-> SetSymNames[1],
                                       underscore_name |-> SetUsNames[1],
                                       counters |-> cs ] >> ] >>
    IN  UNION { { File(<< Named(e), Other(f) >>), File(<< Other(f), Named(e) >>) } :
                  e \in { <<"100">>, <<"10", "3", "UADD">> },
                  f \in { <<"$SliceMask">>, <<"$SliceMask", "3", "UADD">> } }

GenInputs ==
    UNION { { XmlFiles(brk, attrs) :
                brk \in { b \in [1..n -> Breaks] : b[1] = "file" },
                attrs \in [1..n -> CounterAttrs] } : n \in 1..MaxCounters }
    \cup HwNamedInputs

\* The counters in the order the three nested loops of generate_equations
\* visit them (lines 194-196, 224-226): <<file, set, counter>>
RECURSIVE FlatSets(_, _, _)
FlatSets(xmls, g, s) ==
    IF g > Len(xmls) THEN <<>>
    ELSE IF s > Len(xmls[g].sets) THEN FlatSets(xmls, g + 1, 1)
    ELSE [ i \in 1..Len(xmls[g].sets[s].counters) |-> << g, s, i >> ]
         \o FlatSets(xmls, g, s + 1)

Counters == FlatSets(gens, 1, 1)

\* The Set object and the Counter object of the k-th counter visited
SetAt(k) == SetInit(gens[Counters[k][1]].chipset, gens[Counters[k][1]].sets[Counters[k][2]])
CounterAt(k) == SetAt(k).counters[Counters[k][3]]
XmlSetAt(k) == gens[Counters[k][1]].sets[Counters[k][2]]

\* The functions visited by a pass, in order: the read function and then the
\* max function of each counter
NumVisits == 2 * Len(Counters)
VisitCounter(v) == (v + 1) \div 2
VisitIsRead(v) == v % 2 = 1

\* argparse, lines 240-245: --header and --code are optional arguments, None
\* when omitted.  A run without one of them is taken over one counter.
None == "<None>"
GenArgs == [ header : { "equations.h", None }, code : { "equations.c", None } ]

\* Codegen.__init__ and __call__, lines 11-24: the file a Codegen leaves
\* when out is what it was called with; without a filename there is no file
\* and every call is discarded
Written(filename, out) == IF filename = None THEN <<>> ELSE out

\* Gen.__init__, lines 137-175: the three tables of a Gen object
GenTables == [ ops |-> ops, exp_ops |-> exp_ops, hw_vars |-> hw_vars ]

\* os.path.basename(None)
TypeError == << "TypeError", "expected str, bytes or os.PathLike object, not NoneType" >>

GenInit ==
    /\ gens \in GenInputs
    /\ gen_args \in { a \in GenArgs :
                          (a.header # None /\ a.code # None) \/ Len(Counters) = 1 }
    /\ gen_tables = <<>>
    /\ hashes = <<>> /\ hashed_funcs = <<>>
    /\ c_out = <<>> /\ h_out = <<>>
    /\ gen_pc = "main" /\ visit = 0 /\ gen_err = NoErr
    /\ EqIdle /\ MsIdle /\ SpIdle /\ HsIdle /\ ExIdle /\ UdIdle

\* main, lines 251-283: the Gen objects are built (Set.__init__ computes the
\* hashes of every counter), then the copyright goes to both streams
GenMain ==
    /\ gen_pc = "main"
    /\ LET hs == [ k \in 1..Len(Counters) |-> compute_hashes(XmlSetAt(k), Counters[k][3]) ] IN
         IF \E k \in 1..Len(Counters) : ~hs[k].ok
         THEN /\ gen_pc' = "raised" /\ gen_err' = RecursionError
              /\ UNCHANGED <<gen_tables, hashes, c_out, h_out>>
         ELSE /\ hashes' = hs
              /\ gen_tables' = [ g \in 1..Len(gens) |-> GenTables ]
              /\ c_out' = << Line("copyright", "", "") >>
              /\ h_out' = << Line("copyright", "", "") >>
              /\ gen_pc' = "generate" /\ UNCHANGED gen_err
    /\ UNCHANGED <<gen_args, gens, hashed_funcs, visit, genOther>>

\* generate_equations, lines 159-191
GenBeginCode ==
    /\ gen_pc = "generate"
    /\ IF gen_args.header = None
       THEN /\ gen_pc' = "raised" /\ gen_err' = TypeError
            /\ UNCHANGED <<hashed_funcs, c_out, visit>>
       ELSE /\ hashed_funcs' = ResetForCode(hashed_funcs)
            /\ c_out' = Append(c_out, Line("preamble", "", ""))
            /\ gen_pc' = "code" /\ visit' = 1 /\ UNCHANGED gen_err
    /\ UNCHANGED <<gen_args, gen_tables, gens, hashes, h_out, genOther>>

\* The state a pass hands to the function of the counter visited
PassState == GenState(hashed_funcs, c_out, h_out)

\* The step of a pass that leaves state st: the next function is visited, or
\* the exception ends the run
PassStep(st) ==
    /\ hashed_funcs' = st.hashed_funcs
    /\ c_out' = st.c
    /\ h_out' = st.h
    /\ gen_err' = st.err
    /\ IF st.err = NoErr
       THEN visit' = visit + 1 /\ UNCHANGED gen_pc
       ELSE gen_pc' = "raised" /\ UNCHANGED visit
    /\ UNCHANGED <<gen_args, gen_tables, gens, hashes, genOther>>

\* line 197
OutputCounterRead ==
    /\ gen_pc = "code" /\ visit <= NumVisits /\ VisitIsRead(visit)
    /\ LET k == VisitCounter(visit) IN
         PassStep(output_counter_read(SetAt(k), CounterAt(k), hashes[k], PassState))

\* line 198
OutputCounterMax ==
    /\ gen_pc = "code" /\ visit <= NumVisits /\ ~VisitIsRead(visit)
    /\ LET k == VisitCounter(visit) IN
         PassStep(output_counter_max(SetAt(k), CounterAt(k), hashes[k], PassState))

\* lines 200-221
GenBeginHeader ==
    /\ gen_pc = "code" /\ visit > NumVisits
    /\ hashed_funcs' = ResetForHeader(hashed_funcs)
    /\ h_out' = Append(h_out, Line("guard", "", ""))
    /\ gen_pc' = "header" /\ visit' = 1
    /\ UNCHANGED <<gen_args, gen_tables, gens, hashes, c_out, gen_err, genOther>>

\* line 227
OutputCounterReadDefinition ==
    /\ gen_pc = "header" /\ visit <= NumVisits /\ VisitIsRead(visit)
    /\ LET k == VisitCounter(visit) IN
         PassStep(output_counter_read_definition(SetAt(k), CounterAt(k), hashes[k], PassState))

\* line 228
OutputCounterMaxDefinition ==
    /\ gen_pc = "header" /\ visit <= NumVisits /\ ~VisitIsRead(visit)
    /\ LET k == VisitCounter(visit) IN
         PassStep(output_counter_max_definition(SetAt(k), CounterAt(k), hashes[k], PassState))

\* lines 230-233
GenEnd ==
    /\ gen_pc = "header" /\ visit > NumVisits
    /\ h_out' = Append(h_out, Line("endif", "", ""))
    /\ gen_pc' = "done"
    /\ UNCHANGED <<gen_args, gen_tables, gens, hashes, hashed_funcs, c_out, visit, gen_err, genOther>>

GenNext ==
    \/ GenMain \/ GenBeginCode \/ OutputCounterRead \/ OutputCounterMax
    \/ GenBeginHeader \/ OutputCounterReadDefinition \/ OutputCounterMaxDefinition
    \/ GenEnd

SpecGen == GenInit /\ [][GenNext]_vars

-----------------------------------------------------------------------------
(* Claims on the equations generator.                                      *)

\* The x texts of the lines of kind k of a stream, in order, and how often
\* text x has a line of kind k
Texts(out, k) ==
    LET RECURSIVE Go(_)
        Go(i) == IF i > Len(out) THEN <<>>
                 ELSE IF out[i].k = k THEN << out[i].x >> \o Go(i + 1)
                 ELSE Go(i + 1)
    IN Go(1)
TextSet(out, k) == { out[i].x : i \in { j \in 1..Len(out) : out[j].k = k } }
Count(out, k, x) == Cardinality({ i \in 1..Len(out) : out[i].k = k /\ out[i].x = x })

\* Visit v of a pass: its equation, hash and symbol, and whether the pass
\* gives the visited function a definition or a declaration at all (a max
\* function only for a max equation that is neither absent nor "100")
VisitEquation(v) ==
    IF VisitIsRead(v) THEN CounterAt(VisitCounter(v)).xml.equation
    ELSE CounterAt(VisitCounter(v)).xml.max_equation
VisitHash(v) ==
    IF VisitIsRead(v) THEN hashes[VisitCounter(v)].read_hash
    ELSE hashes[VisitCounter(v)].max_hash
VisitSym(v) ==
    IF VisitIsRead(v) THEN CounterAt(VisitCounter(v)).read_sym
    ELSE CounterAt(VisitCounter(v)).max_sym
VisitEmits(v) ==
    VisitIsRead(v) \/ (VisitEquation(v) # <<>> /\ Join(VisitEquation(v)) # "100")
Emitting == { v \in 1..NumVisits : VisitEmits(v) }

\* The first function visited that has the hash of visit v
FirstWithHash(v) ==
    CHOOSE u \in Emitting :
        /\ VisitHash(u) = VisitHash(v)
        /\ \A w \in Emitting : VisitHash(w) = VisitHash(v) => u <= w

\* C3: in a completed run every hash has exactly one function body in the
\* implementation stream, under the symbol of the first function visited
\* with that hash, which alone gets a prototype; the symbol of every later
\* function with that hash appears only in the declarations stream, once, as
\* an alias of that first symbol.
C3_OneBodyPerHash ==
    gen_pc = "done" =>
        \A v \in Emitting :
            LET u == FirstWithHash(v) IN
            IF u = v
            THEN /\ Count(c_out, "signature", VisitSym(v)) = 1
                 /\ Count(h_out, "prototype", VisitSym(v)) = 1
                 /\ Count(h_out, "define", VisitSym(v)) = 0
            ELSE /\ Count(c_out, "signature", VisitSym(v)) = 0
                 /\ Count(h_out, "prototype", VisitSym(v)) = 0
                 /\ Count(h_out, "define", VisitSym(v)) = 1
                 /\ \A i \in 1..Len(h_out) :
                        (h_out[i].k = "define" /\ h_out[i].x = VisitSym(v))
                            => h_out[i].y = VisitSym(u)

\* Two counters of different XML files with equal read hashes
C3_Witness ==
    /\ gen_pc = "done" /\ Len(gens) = 2 /\ NumVisits = 4
    /\ VisitHash(1) = VisitHash(3)
    /\ Count(c_out, "signature", VisitSym(1)) = 1
    /\ \E i \in 1..Len(h_out) :
          h_out[i].k = "define" /\ h_out[i].x = VisitSym(3) /\ h_out[i].y = VisitSym(1)

\* C4: each pass starts with an empty memoization table, and in a completed
\* run the symbols given a prototype are, in the same order, the symbols
\* given a function body, and every alias targets one of them.
C4_PassesAgree ==
    /\ (gen_pc \in {"code", "header"} /\ visit = 1) => hashed_funcs = <<>>
    /\ gen_pc = "done" =>
         /\ Texts(h_out, "prototype") = Texts(c_out, "signature")
         /\ \A i \in 1..Len(h_out) :
               h_out[i].k = "define" => h_out[i].y \in TextSet(c_out, "signature")

C4_Witness ==
    /\ gen_pc = "done"
    /\ Len(Texts(c_out, "signature")) = 2
    /\ Len(Texts(h_out, "prototype")) = 2
    /\ Len(Texts(h_out, "define")) = 2

\* The counters with a "$" token, in the read equation or in a max equation
\* that is compiled, that names neither a hardware variable nor a counter of
\* their Set
UndefinedIn(k, toks) ==
    \E i \in 1..Len(toks) :
        /\ IsDollar(toks[i])
        /\ toks[i] \notin DOMAIN hw_vars
        /\ toks[i] \notin DOMAIN SetAt(k).counter_vars
ReferencesUndefined(k) ==
    \/ UndefinedIn(k, CounterAt(k).xml.equation)
    \/ /\ Join(CounterAt(k).xml.max_equation) # "100"
       /\ UndefinedIn(k, CounterAt(k).xml.max_equation)

\* C7: a run over a counter whose equation references an undefined "$"
\* symbol aborts at that counter: no later function is visited, the
\* declarations pass never starts and no prototype is written.
C7_UndefinedSymbolAborts ==
    \A k \in 1..Len(Counters) :
        ReferencesUndefined(k) =>
            /\ gen_pc \notin {"header", "done"}
            /\ gen_pc = "code" => VisitCounter(visit) <= k
            /\ Texts(h_out, "prototype") = <<>>

\* The name a per-counter max function of counter k would have
PerCounterMaxSym(k) ==
    SetAt(k).chipset \o "__" \o SetAt(k).underscore_name \o "__"
        \o CounterAt(k).xml.underscore_name \o "__max"

Percentage == { k \in 1..Len(Counters) : Join(CounterAt(k).xml.max_equation) = "100" }

\* C8: the max symbol of a counter whose max_equation is "100" is
\* percentage_max_callback_<data_type>; no function body, prototype or alias
\* is ever written for it, and the visit of its max function in either pass
\* leaves the memoization table and both streams as they are.
C8_PercentageState ==
    \A k \in Percentage :
        /\ CounterAt(k).max_sym = "percentage_max_callback_" \o CounterAt(k).xml.data_type
        /\ SetAt(k).max_funcs[CounterAt(k).xml.symbol_name] = CounterAt(k).max_sym
        /\ \A out \in {c_out, h_out} : \A i \in 1..Len(out) :
              out[i].k \in {"signature", "prototype", "define"} =>
                  out[i].x \notin {CounterAt(k).max_sym, PerCounterMaxSym(k)}
        /\ \A h \in DOMAIN hashed_funcs :
              hashed_funcs[h] \notin {CounterAt(k).max_sym, PerCounterMaxSym(k)}

C8_PercentageNeverEmitted ==
    /\ []C8_PercentageState
    /\ [][ ( /\ gen_pc \in {"code", "header"} /\ visit <= NumVisits
             /\ ~VisitIsRead(visit) /\ VisitCounter(visit) \in Percentage ) =>
              /\ hashed_funcs' = hashed_funcs /\ c_out' = c_out /\ h_out' = h_out
              /\ gen_pc' = gen_pc /\ visit' = visit + 1 ]_vars

\* A percentage counter visited after a counter whose read equation is "100"
C8_Witness ==
    /\ gen_pc = "done" /\ Len(Counters) = 2
    /\ 2 \in Percentage
    /\ "100" \in DOMAIN hashed_funcs
    /\ CounterAt(2).max_sym = "percentage_max_callback_float"

\* C9: a run over a counter whose data_type is neither "uint64" nor "float"
\* never completes.
C9_UnknownDataTypeAborts ==
    (\E k \in 1..Len(Counters) : CounterAt(k).xml.data_type \notin {"uint64", "float"})
        => gen_pc # "done"

\* C14: a run of the equations generator started without --header ends as a
\* usage error before any Set or Counter is built: it never gets past the
\* parsing of its arguments, no hashes are computed and nothing is written.
C14_UsageErrorBeforeModel ==
    gen_args.header = None =>
        /\ gen_pc \in {"main", "raised"}
        /\ hashes = <<>>
        /\ c_out = <<>> /\ h_out = <<>>
        /\ gen_pc = "raised" => gen_err[1] = "usage"

\* The run was ended by an exception of output_rpn_equation_code
CompileFailed ==
    /\ gen_pc = "raised"
    /\ \/ gen_err = IndexError
       \/ /\ gen_err[1] = "Exception"
          /\ gen_err[2] \in { "Failed to resolve variable ", "Spurious empty rpn code for " }

\* The last blank line of the implementation stream: where the function
\* written last begins
LastBlank ==
    CHOOSE i \in 1..Len(c_out) :
        /\ c_out[i].k = "blank"
        /\ \A j \in (i + 1)..Len(c_out) : c_out[j].k # "blank"

\* C20 as stated: when compiling a counter's equation fails, nothing of the
\* failing function is in the implementation stream: no signature of its
\* symbol, and the stream ends outside any function.
C20_NoPartialOutput ==
    CompileFailed =>
        /\ \A i \in 1..Len(c_out) :
              ~(c_out[i].k = "signature" /\ c_out[i].x = VisitSym(visit))
        /\ Last(c_out).k \in { "preamble", "}" }

\* C20, amended: when compiling a counter's equation fails, the
\* implementation stream ends with the truncated function of that counter:
\* its comment, return type, signature, opening brace, the RPN comment and
\* the declarations of the operators reduced before the failure, and no
\* return statement or closing brace; its hash is not memoized and the
\* declarations stream holds no prototype.
C20_TruncatedFunction ==
    CompileFailed =>
        /\ \E j \in 1..Len(c_out) : c_out[j].k = "blank"
        /\ LET i == LastBlank
               k == VisitCounter(visit)
           IN
            /\ Len(c_out) >= i + 5
            /\ c_out[i + 1] = Line("comment", SetAt(k).name, CounterAt(k).xml.name)
            /\ c_out[i + 2].k = "ctype"
            /\ c_out[i + 3] = Line("signature", VisitSym(visit), "")
            /\ c_out[i + 4].k = "{"
            /\ c_out[i + 5] = Comment("/* RPN equation: " \o Join(VisitEquation(visit)) \o " */")
            /\ \A j \in (i + 6)..Len(c_out) : c_out[j].k = "decl"
            /\ VisitHash(visit) \notin DOMAIN hashed_funcs
            /\ h_out = << Line("copyright", "", "") >>

\* a run ended by the malformed stack of "10 3 UADD 0", the declaration of
\* the sum being the last line written
C20_Witness ==
    /\ CompileFailed
    /\ gen_err[2] = "Spurious empty rpn code for "
    /\ Last(c_out).k = "decl"
    /\ Len(c_out) = LastBlank + 6

\* The four mnemonics of the boolean-expression operator table
ExpMnemonics == { "AND", "UGTE", "ULT", "&&" }

\* Every Gen built has the four boolean operators, each of two operands,
\* and all Gens have the same three tables
TablesAlike ==
    \A g \in 1..Len(gen_tables) :
        /\ DOMAIN gen_tables[g].exp_ops = ExpMnemonics
        /\ \A m \in ExpMnemonics : gen_tables[g].exp_ops[m] = 2
        /\ \A h \in 1..Len(gen_tables) : gen_tables[h] = gen_tables[g]

\* No step changes the tables of a Gen that was built
TablesKept == gen_tables # <<>> => gen_tables' = gen_tables

\* C24 as stated: exp_ops holds exactly AND, UGTE, ULT and &&, each of arity
\* 2, and no mnemonic of ops; the tables are the same in every Gen and no
\* step changes them once the Gens are built.
C24_TablesDisjoint ==
    /\ [](TablesAlike /\ \A g \in 1..Len(gen_tables) :
              DOMAIN gen_tables[g].exp_ops \cap DOMAIN gen_tables[g].ops = {})
    /\ [][TablesKept]_vars

\* C24, amended: exp_ops holds exactly AND, UGTE, ULT and &&, each of arity
\* 2, and shares the one mnemonic AND with ops; the tables are the same in
\* every Gen and no step changes them once the Gens are built.
C24_TablesShareAnd ==
    /\ [](TablesAlike /\ \A g \in 1..Len(gen_tables) :
              DOMAIN gen_tables[g].exp_ops \cap DOMAIN gen_tables[g].ops = { "AND" })
    /\ [][TablesKept]_vars

\* a completed run over two XML files, two Gens with their tables
C24_Witness ==
    /\ gen_pc = "done"
    /\ Len(gen_tables) = 2
    /\ gen_tables[1] = gen_tables[2]
    /\ "AND" \in DOMAIN gen_tables[2].exp_ops \cap DOMAIN gen_tables[2].ops

\* C25: a run started without --header or without --code is not refused for
\* the missing path (it ends only on an equation that fails its check), and
\* when it completes the omitted path has no file and the other file is
\* whole: the implementation with the body of every function that is the
\* first of its hash, the declarations closed by #endif.
C25_OmittedPathAccepted ==
    (gen_args.header = None \/ gen_args.code = None) =>
        /\ gen_pc = "raised" => gen_err # TypeError
        /\ gen_pc = "done" =>
              /\ gen_args.code = None => Written(gen_args.code, c_out) = <<>>
              /\ gen_args.header = None => Written(gen_args.header, h_out) = <<>>
              /\ gen_args.code # None =>
                    \A v \in Emitting : FirstWithHash(v) = v =>
                        Count(Written(gen_args.code, c_out), "signature", VisitSym(v)) = 1
              /\ gen_args.header # None =>
                    Last(Written(gen_args.header, h_out)).k = "endif"

-----------------------------------------------------------------------------
(* codegen.py: the boolean-expression splicer.                             *)
(* A spliced text is the sequence of its words, the pieces between single  *)
(* spaces: tokens and the 'c' texts of hardware variables hold no space,   *)
(* so a text contains a space exactly when it has more than one word.      *)

\* brkt, lines 249-253
brkt(subexp) ==
    IF Len(subexp) > 1
    THEN << "(" \o subexp[1] >> \o SubSeq(subexp, 2, Len(subexp) - 1)
            \o << Last(subexp) \o ")" >>
    ELSE subexp

\* lines 255-265
splice_bitwise_and(args) == brkt(Arg(args, 1)) \o << "&" >> \o brkt(Arg(args, 0))
splice_logical_and(args) == brkt(Arg(args, 1)) \o << "&&" >> \o brkt(Arg(args, 0))
splice_ult(args) == brkt(Arg(args, 1)) \o << "<" >> \o brkt(Arg(args, 0))
splice_ugte(args) == brkt(Arg(args, 1)) \o << ">=" >> \o brkt(Arg(args, 0))

\* self.exp_ops[op][1](args)
SpliceCallback(op, args) ==
    CASE op = "AND"  -> splice_bitwise_and(args)
      [] op = "UGTE" -> splice_ugte(args)
      [] op = "ULT"  -> splice_ult(args)
      [] op = "&&"   -> splice_logical_and(args)

\* line 327: the exception of a variable that is no hardware variable
SpliceResolveError(set, counter_name, expression, operand) ==
    << "Exception", "Failed to resolve variable ", operand, " in expression ",
       Join(expression), " for ", set.name, " :: ", counter_name >>

\* lines 335-337: the exception of a stack that does not hold one value
SpliceSpuriousError(set, counter_name, expression) ==
    << "Exception", "Spurious empty rpn expression for ", set.name, " :: ", counter_name,
       ".\nThis is probably due to some unhandled RPN operation, in the expression \"",
       Join(expression), "\"" >>

\* lines 320-328: argc operands popped from the stack and resolved
RECURSIVE SplicePopArgs(_, _, _, _, _, _)
SplicePopArgs(set, counter_name, expression, stk, args, argc) ==
    IF argc = 0 THEN [ stack |-> stk, args |-> args, err |-> NoErr ]
    ELSE IF stk = <<>> THEN [ stack |-> stk, args |-> args, err |-> IndexError ]
    ELSE LET operand == Last(stk) IN
         IF Len(operand) = 1 /\ IsDollar(operand[1])
         THEN IF operand[1] \in DOMAIN hw_vars
              THEN SplicePopArgs(set, counter_name, expression, Front(stk),
                                 Append(args, << hw_vars[operand[1]] >>), argc - 1)
              ELSE [ stack |-> Front(stk), args |-> args,
                     err |-> SpliceResolveError(set, counter_name, expression, operand[1]) ]
         ELSE SplicePopArgs(set, counter_name, expression, Front(stk),
                            Append(args, operand), argc - 1)

\* lines 316-333: the while loop after a token is pushed
RECURSIVE SpliceWhileOps(_, _, _, _)
SpliceWhileOps(set, counter_name, expression, stk) ==
    IF stk # <<>> /\ Len(Last(stk)) = 1 /\ Last(stk)[1] \in DOMAIN exp_ops
    THEN LET op == Last(stk)[1]
             p  == SplicePopArgs(set, counter_name, expression, Front(stk), <<>>, exp_ops[op])
         IN  IF p.err # NoErr THEN [ stack |-> p.stack, err |-> p.err ]
             ELSE SpliceWhileOps(set, counter_name, expression,
                                 Append(p.stack, SpliceCallback(op, p.args)))
    ELSE [ stack |-> stk, err |-> NoErr ]

\* lines 314-333: the scan of the tokens from position i on
RECURSIVE SpliceScan(_, _, _, _, _)
SpliceScan(set, counter_name, expression, stk, i) ==
    IF i > Len(expression) THEN [ stack |-> stk, err |-> NoErr ]
    ELSE LET r == SpliceWhileOps(set, counter_name, expression,
                                 Append(stk, << expression[i] >>))
         IN  IF r.err # NoErr THEN r
             ELSE SpliceScan(set, counter_name, expression, r.stack, i + 1)

\* splice_rpn_expression, lines 311-339: [text, err]
splice_rpn_expression(set, counter_name, expression) ==
    LET r == SpliceScan(set, counter_name, expression, <<>>, 1) IN
    IF r.err # NoErr THEN [ text |-> <<>>, err |-> r.err ]
    ELSE IF Len(r.stack) # 1
         THEN [ text |-> <<>>, err |-> SpliceSpuriousError(set, counter_name, expression) ]
    ELSE [ text |-> Last(r.stack), err |-> NoErr ]

\* expression.split(' && '): the word sequences between the "&&" words
RECURSIVE SplitAnd(_, _)
SplitAnd(words, cur) ==
    IF words = <<>> THEN << cur >>
    ELSE IF Head(words) = "&&" THEN << cur >> \o SplitAnd(Tail(words), <<>>)
    ELSE SplitAnd(Tail(words), Append(cur, Head(words)))

\* output_availability, lines 342-343: lines = expression.split(' && ')
AvailabilityPieces(set, availability, counter_name) ==
    SplitAnd(splice_rpn_expression(set, counter_name, availability).text, <<>>)

\* output_availability, lines 341-353: [c, err], c the lines written
output_availability(set, availability, counter_name) ==
    LET e == splice_rpn_expression(set, counter_name, availability)
        lines == AvailabilityPieces(set, availability, counter_name)
        n_lines == Len(lines)
    IN  IF e.err # NoErr THEN [ c |-> <<>>, err |-> e.err ]
        ELSE IF n_lines = 1
        THEN [ c |-> << Line("if", "if (" \o Join(lines[1]) \o ") {", "") >>, err |-> NoErr ]
        ELSE [ c |-> << Line("if", "if (" \o Join(lines[1]) \o " &&", "") >>
                     \o [ i \in 1..(n_lines - 2) |-> Line("if", Join(lines[i + 1]) \o " &&", "") ]
                     \o << Line("if", Join(lines[n_lines]) \o ") {", "") >>,
               err |-> NoErr ]

-----------------------------------------------------------------------------
(* perf-metricset-codegen.py.                                              *)

\* Python compares str by code point; the symbol names of the model are one
\* character long
CodePoint == ("A" :> 65) @@ ("B" :> 66) @@ ("a" :> 97)
StrLess(s, t) == CodePoint[s] < CodePoint[t]

\* sorted(set.counters, key=lambda k: k.get('symbol_name')), line 112: a
\* stable sort, counters of equal key keep their XML order
RECURSIVE sorted(_)
sorted(counters) ==
    IF counters = <<>> THEN <<>>
    ELSE LET x == Last(counters)
             rest == sorted(Front(counters))
             n == Cardinality({ i \in 1..Len(rest) :
                      ~StrLess(x.xml.symbol_name, rest[i].xml.symbol_name) })
         IN  SubSeq(rest, 1, n) \o << x >> \o SubSeq(rest, n + 1, Len(rest))

\* availability_func_name, lines 42-43
availability_func_name(set, counter) ==
    set.chipset \o "_" \o set.underscore_name \o "_" \o counter.xml.symbol_name
        \o "_availability"

\* output_availability_funcs, lines 45-57: [c, err]
output_availability_funcs(set, counter) ==
    LET availability == counter.xml.availability IN
    IF availability = <<>> THEN [ c |-> <<>>, err |-> NoErr ]
    ELSE LET open == << Line("guard", counter.xml.symbol_name,
                             availability_func_name(set, counter)) >>
             a == output_availability(set, availability, counter.xml.name)
         IN  IF a.err # NoErr THEN [ c |-> open, err |-> a.err ]
             ELSE [ c |-> open \o a.c \o << Line("guard_end", "", "") >>, err |-> NoErr ]

\* A dict lookup with a key the dict does not have
KeyError(key) == << "KeyError", key >>

\* output_counter_report, lines 59-90: [c, err]
output_counter_report(set, counter) ==
    LET data_type == counter.xml.data_type
        key == "$" \o counter.xml.symbol_name
        open == << Line("record", counter.xml.symbol_name, counter.xml.name) >>
    IN  IF key \notin DOMAIN set.read_funcs THEN [ c |-> open, err |-> KeyError(key) ]
        ELSE IF key \notin DOMAIN set.max_funcs
        THEN [ c |-> open \o << Line("read", data_type, set.read_funcs[key]) >>,
               err |-> KeyError(key) ]
        ELSE [ c |-> open
                     \o << Line("read", data_type, set.read_funcs[key]),
                           Line("max", data_type, set.max_funcs[key]) >>
                     \o (IF counter.xml.availability # <<>>
                         THEN << Line("availability", availability_func_name(set, counter), "") >>
                         ELSE <<>>)
                     \o << Line("record_end", "", "") >>,
               err |-> NoErr ]

\* str.startswith on the chipset names of the model
StartsWith(chipset, prefix) ==
    << chipset, prefix >> \in { << "acmgt1", "acm" >>, << "mtlgt2", "mtl" >> }

\* A Set object has no attribute oa_format (codegen.py, lines 81-123)
AttributeError(attr) == << "AttributeError", "'Set' object has no attribute '", attr, "'" >>

\* lines 135-184: the raw-accumulator layout written: the format constant,
\* a_offset, and what b_offset adds to a_offset.  Every layout goes on with
\* c_offset = b_offset + 8 and perfcnt_offset = c_offset + 8.
Layout(format, a_offset, b_delta) ==
    [ Line("layout", a_offset, b_delta) EXCEPT !.name = format ]

\* generate_metric_sets, lines 119-184: the head of the registration
\* function and the raw-accumulator layout
RegistrationHead(set, counters) ==
    LET head == << Line("registration", set.chipset \o "_add_" \o set.underscore_name
                                           \o "_metric_set", ""),
                   Line("calloc", ToString(Len(counters)), "") >>
    IN  IF set.chipset = "hsw"
        THEN [ c |-> head \o << Layout("I915_OA_FORMAT_A45_B8_C8", "1", "45") >>,
               err |-> NoErr ]
        ELSE IF StartsWith(set.chipset, "acm") \/ StartsWith(set.chipset, "mtl")
        THEN [ c |-> head, err |-> AttributeError("oa_format") ]
        ELSE [ c |-> head \o << Layout("I915_OA_FORMAT_A32u40_A4u32_B8_C8", "2", "36") >>,
               err |-> NoErr ]

-----------------------------------------------------------------------------
(* SpecMs: one run of perf-metricset-codegen.py over one XML file with all *)
(* four paths given.                                                       *)

MsChipsets == { "hsw", "tgl", "acmgt1" }
MsSymbols == { "A", "B", "a" }

\* The availability attribute: absent, a test of a hardware variable, a
\* reference to counter A
MsAvailabilities ==
    { <<>>, << "$GpuTimestampFrequency", "500", "UGTE" >>, << "$A", "1", "AND" >> }

MsXmlCounter(i, a) ==
    [ XmlCounter(i, [ equation |-> << "10", "3", "UADD" >>, max_equation |-> << "100" >>,
                      data_type |-> "uint64" ])
        EXCEPT !.symbol_name = a.symbol_name, !.availability = a.availability ]

MsXmlSet(s, attrs) ==
    [ name |-> SetNames[s], symbol_name |-> SetSymNames[s], underscore_name |-> SetUsNames[s],
      counters |-> [ i \in 1..Len(attrs) |-> MsXmlCounter(i, attrs[i]) ] ]

\* One set, or two sets with the counters split between them
MsInputs ==
    LET Attrs == [ symbol_name : MsSymbols, availability : MsAvailabilities ]
        Lists == UNION { [1..n -> Attrs] : n \in 0..MaxMsCounters }
    IN  { [ chipset |-> ch, sets |-> << MsXmlSet(1, l) >> ] : ch \in MsChipsets, l \in Lists }
        \cup UNION { { [ chipset |-> ch,
                         sets |-> << MsXmlSet(1, SubSeq(l, 1, k)),
                                     MsXmlSet(2, SubSeq(l, k + 1, Len(l))) >> ]
                       : k \in 0..Len(l) } : ch \in MsChipsets, l \in Lists }

\* The Set object the loop of line 111 is at
MsSet == SetInit(ms_gen.chipset, ms_gen.sets[ms_s])

MsInit ==
    /\ ms_gen \in MsInputs
    /\ ms_s = 0 /\ ms_sorted = <<>> /\ ms_out = <<>>
    /\ ms_pc = "main" /\ ms_i = 0 /\ ms_err = NoErr
    /\ EqIdle /\ GenIdle /\ SpIdle /\ HsIdle /\ ExIdle /\ UdIdle

\* main, lines 248-301, and generate_metric_sets, lines 94-107
MsMain ==
    /\ ms_pc = "main"
    /\ ms_out' = << Line("copyright", "", ""), Line("include", "", "") >>
    /\ ms_pc' = "sets" /\ ms_s' = 1
    /\ UNCHANGED <<ms_gen, ms_sorted, ms_i, ms_err, msOther>>

\* lines 111-114: the next Set, its counters sorted
MsBeginSet ==
    /\ ms_pc = "sets" /\ ms_s <= Len(ms_gen.sets)
    /\ ms_sorted' = sorted(MsSet.counters)
    /\ ms_out' = Append(ms_out, Line("set", MsSet.underscore_name, ""))
    /\ ms_pc' = "guards" /\ ms_i' = 1
    /\ UNCHANGED <<ms_gen, ms_s, ms_err, msOther>>

\* The step of a loop that wrote r.c and raised r.err (NoErr when none)
MsStep(r) ==
    /\ ms_out' = ms_out \o r.c
    /\ ms_err' = r.err
    /\ IF r.err = NoErr
       THEN ms_i' = ms_i + 1 /\ UNCHANGED ms_pc
       ELSE ms_pc' = "raised" /\ UNCHANGED ms_i
    /\ UNCHANGED <<ms_gen, ms_s, ms_sorted, msOther>>

\* lines 116-117
MsAvailabilityFunc ==
    /\ ms_pc = "guards" /\ ms_i <= Len(ms_sorted)
    /\ MsStep(output_availability_funcs(MsSet, ms_sorted[ms_i]))

\* lines 119-194
MsRegistration ==
    /\ ms_pc = "guards" /\ ms_i > Len(ms_sorted)
    /\ LET r == RegistrationHead(MsSet, ms_sorted) IN
         /\ ms_err' = r.err
         /\ IF r.err = NoErr
            THEN /\ ms_out' = ms_out \o r.c \o << Line("table", "", "") >>
                 /\ ms_pc' = "records" /\ ms_i' = 1
            ELSE /\ ms_out' = ms_out \o r.c
                 /\ ms_pc' = "raised" /\ UNCHANGED ms_i
    /\ UNCHANGED <<ms_gen, ms_s, ms_sorted, msOther>>

\* lines 196-197
MsCounterReport ==
    /\ ms_pc = "records" /\ ms_i <= Len(ms_sorted)
    /\ MsStep(output_counter_report(MsSet, ms_sorted[ms_i]))

\* lines 198-219
MsEndSet ==
    /\ ms_pc = "records" /\ ms_i > Len(ms_sorted)
    /\ ms_out' = ms_out \o << Line("table_end", "", ""),
                              Line("assert", ToString(Len(ms_sorted)), "") >>
    /\ ms_pc' = "sets" /\ ms_s' = ms_s + 1
    /\ UNCHANGED <<ms_gen, ms_sorted, ms_i, ms_err, msOther>>

\* lines 221-230
MsEnd ==
    /\ ms_pc = "sets" /\ ms_s > Len(ms_gen.sets)
    /\ ms_out' = ms_out \o << Line("load", "intel_perf_load_metrics_" \o ms_gen.chipset, "") >>
                        \o [ s \in 1..Len(ms_gen.sets) |->
                               Line("add", ms_gen.chipset \o "_add_"
                                           \o ms_gen.sets[s].underscore_name \o "_metric_set", "") ]
    /\ ms_pc' = "done"
    /\ UNCHANGED <<ms_gen, ms_s, ms_sorted, ms_i, ms_err, msOther>>

MsNext ==
    \/ MsMain \/ MsBeginSet \/ MsAvailabilityFunc \/ MsRegistration
    \/ MsCounterReport \/ MsEndSet \/ MsEnd

SpecMs == MsInit /\ [][MsNext]_vars

-----------------------------------------------------------------------------
(* Claims on the metric-set generator.                                     *)

\* The lines written for the s-th Set of the run
Segment(out, s) ==
    LET marks == { i \in 1..Len(out) : out[i].k = "set" }
        Nth(n) == CHOOSE i \in marks : Cardinality({ j \in marks : j <= i }) = n
    IN  IF Cardinality(marks) < s THEN <<>>
        ELSE SubSeq(out, Nth(s),
                    IF Cardinality(marks) > s THEN Nth(s + 1) - 1 ELSE Len(out))

StrictlyAscending(names) ==
    \A i \in 1..(Len(names) - 1) : StrLess(names[i], names[i + 1])

\* The run ended on an exception of the availability splicer
MsInputError == ms_pc = "raised" /\ ms_err[1] \in {"Exception", "IndexError"}

\* C10: when a run has ended, other than on a malformed availability
\* expression, then for every Set whose counter table the run began, the
\* guard functions written are those of its counters with an availability,
\* the records written are complete and those of all its counters, and both
\* are in strictly ascending code-point order of symbol_name.
C10_SortedEmission ==
    (ms_pc \in {"done", "raised"} /\ ~MsInputError) =>
        \A s \in 1..Len(ms_gen.sets) :
            LET seg == Segment(ms_out, s)
                cs == ms_gen.sets[s].counters
                guarded == { j \in 1..Len(cs) : cs[j].availability # <<>> }
            IN  Texts(seg, "table") # <<>> =>
                /\ StrictlyAscending(Texts(seg, "guard"))
                /\ Len(Texts(seg, "guard")) = Cardinality(guarded)
                /\ TextSet(seg, "guard") = { cs[i].symbol_name : i \in guarded }
                /\ StrictlyAscending(Texts(seg, "record"))
                /\ Len(Texts(seg, "record")) = Len(cs)
                /\ Len(Texts(seg, "record_end")) = Len(cs)
                /\ TextSet(seg, "record") = { cs[i].symbol_name : i \in 1..Len(cs) }

\* C11: when a run has ended, other than on a malformed availability
\* expression, then for every Set whose counter table the run began, every
\* counter has exactly one record, and the record names the counter's read
\* symbol as its read function and the counter's max symbol as its max
\* function.
C11_OneRecordPerCounter ==
    (ms_pc \in {"done", "raised"} /\ ~MsInputError) =>
        \A s \in 1..Len(ms_gen.sets) :
            LET seg == Segment(ms_out, s)
                set == SetInit(ms_gen.chipset, ms_gen.sets[s])
            IN  Texts(seg, "table") # <<>> =>
                \A i \in 1..Len(set.counters) :
                    LET c == set.counters[i]
                        at == { j \in 1..Len(seg) :
                                  seg[j] = Line("record", c.xml.symbol_name, c.xml.name) }
                    IN  /\ Cardinality(at) = 1
                        /\ \A j \in at :
                              /\ j + 2 <= Len(seg)
                              /\ seg[j + 1] = Line("read", c.xml.data_type, c.read_sym)
                              /\ seg[j + 2] = Line("max", c.xml.data_type, c.max_sym)

-----------------------------------------------------------------------------
(* SpecSp: output_availability_funcs for one counter with an availability  *)
(* attribute, then the C compiler and one call of the guard function       *)
(* written.                                                                *)

\* The tokens of the model's availability expressions
SpOperands == { "$GpuTimestampFrequency", "$A", "$X", "500", "1" }
SpOps == { "UGTE", "ULT", "AND", "&&" }
SpTokens == SpOperands \cup SpOps

\* Expressions with two and three operators, nested on either side
SpNested ==
    { <<a, b, o1, c, o2>> : a \in SpOperands, b \in SpOperands, c \in SpOperands,
                            o1 \in SpOps, o2 \in SpOps }
    \cup
    { <<a, b, c, o1, o2>> : a \in SpOperands, b \in SpOperands, c \in SpOperands,
                            o1 \in SpOps, o2 \in SpOps }
    \cup
    { <<a, b, o1, "1", "500", o2, o3>> : a \in SpOperands, b \in SpOperands,
                                         o1 \in SpOps, o2 \in SpOps, o3 \in SpOps }

SpExpressions == UNION { [1..n -> SpTokens] : n \in 1..MaxSpTokens } \cup SpNested

\* The counter whose guard is written: counter B of the Set, with the
\* availability attribute
SpCounter == [ EqCounter EXCEPT !.xml.availability = sp_expr ]

\* The values the hardware variables may have when the guard runs
SpHwValues == { 0, 1, 499, 500, 501 }

\* ---- the C the guard function is written in ----

\* n opening, n closing parentheses
RECURSIVE LParens(_)
LParens(n) == IF n = 0 THEN "" ELSE "(" \o LParens(n - 1)
RECURSIVE RParens(_)
RParens(n) == IF n = 0 THEN "" ELSE RParens(n - 1) \o ")"

\* The C operators and the primary expressions a word may hold
COperators == { ">=", "<", "&", "&&" }
CNumerals == { "500", "1" }
CNames == { hw_vars[v] : v \in DOMAIN hw_vars }
CWordCores == COperators \cup CNumerals \cup CNames \cup DollarTokens \cup SpOps

\* The C tokens of one word: its opening parentheses, its core, its closing
\* parentheses
LexWord(w) ==
    LET t == CHOOSE t \in (0..3) \X CWordCores \X (0..3) :
                 LParens(t[1]) \o t[2] \o RParens(t[3]) = w
    IN  [ i \in 1..t[1] |-> "(" ] \o << t[2] >> \o [ i \in 1..t[3] |-> ")" ]

RECURSIVE Lex(_)
Lex(words) == IF words = <<>> THEN <<>> ELSE LexWord(Head(words)) \o Lex(Tail(words))

\* The words the compiler reads between "if (" and ") {": the lines of the
\* guard joined again
RECURSIVE ConditionWords(_)
ConditionWords(pieces) ==
    IF Len(pieces) = 1 THEN pieces[1]
    ELSE pieces[1] \o << "&&" >> \o ConditionWords(Tail(pieces))

BNode(op, l, r) == << op, l, r >>
NoParse == [ ok |-> FALSE, t |-> Undefined, i |-> 0 ]

\* A C expression parsed by precedence: relational operators bind tighter
\* than &, & tighter than &&, all associate to the left.  [ok, t, i]: the
\* tree and the index of the first token not read.
RECURSIVE CLogicalAnd(_, _)
RECURSIVE CLogicalAndRest(_, _)
RECURSIVE CBitAnd(_, _)
RECURSIVE CBitAndRest(_, _)
RECURSIVE CRelational(_, _)
RECURSIVE CRelationalRest(_, _)
RECURSIVE CPrimary(_, _)

CPrimary(toks, i) ==
    IF i > Len(toks) THEN NoParse
    ELSE IF toks[i] = "("
         THEN LET e == CLogicalAnd(toks, i + 1) IN
              IF e.ok /\ e.i <= Len(toks) /\ toks[e.i] = ")"
              THEN [ ok |-> TRUE, t |-> e.t, i |-> e.i + 1 ]
              ELSE NoParse
    ELSE IF toks[i] \in CNumerals \cup CNames
         THEN [ ok |-> TRUE, t |-> Atom(toks[i]), i |-> i + 1 ]
    ELSE NoParse

CRelationalRest(toks, l) ==
    IF l.ok /\ l.i <= Len(toks) /\ toks[l.i] \in { ">=", "<" }
    THEN LET r == CPrimary(toks, l.i + 1) IN
         IF r.ok THEN CRelationalRest(toks, [ ok |-> TRUE, t |-> BNode(toks[l.i], l.t, r.t), i |-> r.i ])
         ELSE NoParse
    ELSE l
CRelational(toks, i) == CRelationalRest(toks, CPrimary(toks, i))

CBitAndRest(toks, l) ==
    IF l.ok /\ l.i <= Len(toks) /\ toks[l.i] = "&"
    THEN LET r == CRelational(toks, l.i + 1) IN
         IF r.ok THEN CBitAndRest(toks, [ ok |-> TRUE, t |-> BNode("&", l.t, r.t), i |-> r.i ])
         ELSE NoParse
    ELSE l
CBitAnd(toks, i) == CBitAndRest(toks, CRelational(toks, i))

CLogicalAndRest(toks, l) ==
    IF l.ok /\ l.i <= Len(toks) /\ toks[l.i] = "&&"
    THEN LET r == CBitAnd(toks, l.i + 1) IN
         IF r.ok THEN CLogicalAndRest(toks, [ ok |-> TRUE, t |-> BNode("&&", l.t, r.t), i |-> r.i ])
         ELSE NoParse
    ELSE l
CLogicalAnd(toks, i) == CLogicalAndRest(toks, CBitAnd(toks, i))

\* The condition as the compiler reads it: [ok, t], ok FALSE when it is not
\* an expression over the names declared
CCondition(words) ==
    LET toks == Lex(words)
        e == CLogicalAnd(toks, 1)
    IN  IF e.ok /\ e.i = Len(toks) + 1 THEN [ ok |-> TRUE, t |-> e.t ]
        ELSE [ ok |-> FALSE, t |-> Undefined ]

\* Bitwise and of two naturals
RECURSIVE BitAnd(_, _)
BitAnd(a, b) ==
    IF a = 0 \/ b = 0 THEN 0
    ELSE (a % 2) * (b % 2) + 2 * BitAnd(a \div 2, b \div 2)

\* The number a numeral spells
CNumber(text) == CASE text = "500" -> 500 [] text = "1" -> 1

\* The value of an expression tree where every hardware variable holds hw
RECURSIVE CValue(_, _)
CValue(t, hw) ==
    IF t[1] = "atom" THEN (IF t[2] \in CNumerals THEN CNumber(t[2]) ELSE hw)
    ELSE LET l == CValue(t[2], hw)  r == CValue(t[3], hw) IN
         CASE t[1] = ">=" -> IF l >= r THEN 1 ELSE 0
           [] t[1] = "<"  -> IF l < r THEN 1 ELSE 0
           [] t[1] = "&"  -> BitAnd(l, r)
           [] t[1] = "&&" -> IF l # 0 /\ r # 0 THEN 1 ELSE 0

\* ---- the run ----

SpInit ==
    /\ sp_expr \in SpExpressions
    /\ sp_res = <<>> /\ sp_pc = "call" /\ sp_hw = 0 /\ sp_ret = FALSE
    /\ EqIdle /\ GenIdle /\ MsIdle /\ HsIdle /\ ExIdle /\ UdIdle

\* perf-metricset-codegen.py, line 117: output_availability_funcs(set, counter)
SpWrite ==
    /\ sp_pc = "call"
    /\ sp_res' = output_availability_funcs(EqSet, SpCounter)
    /\ sp_pc' = IF sp_res'.err = NoErr THEN "written" ELSE "raised"
    /\ UNCHANGED <<sp_expr, sp_hw, sp_ret, spOther>>

\* The guard function compiled and called with the hardware variables at hw:
\* it returns true when the condition is not 0; a condition that is no C
\* expression over the names declared is rejected by the compiler
SpGuardCall ==
    /\ sp_pc = "written"
    /\ LET cond == CCondition(ConditionWords(
                       AvailabilityPieces(EqSet, sp_expr, SpCounter.xml.name)))
       IN  IF cond.ok
           THEN \E hw \in SpHwValues :
                   /\ sp_hw' = hw
                   /\ sp_ret' = (CValue(cond.t, hw) # 0)
                   /\ sp_pc' = "ran"
           ELSE /\ sp_pc' = "rejected" /\ UNCHANGED <<sp_hw, sp_ret>>
    /\ UNCHANGED <<sp_expr, sp_res, spOther>>

SpNext == SpWrite \/ SpGuardCall

SpecSp == SpInit /\ [][SpNext]_vars

-----------------------------------------------------------------------------
(* Claims on the availability splicer.                                     *)

\* The boolean an RPN availability expression denotes: operands are
\* hardware variables and numerals, an operator replaces the two topmost
\* values, the lower one its left operand
SpOperator(op) ==
    CASE op = "UGTE" -> ">=" [] op = "ULT" -> "<" [] op = "AND" -> "&" [] op = "&&" -> "&&"

RECURSIVE SpRpnStack(_, _, _)
SpRpnStack(toks, i, st) ==
    IF i > Len(toks) THEN st
    ELSE IF toks[i] \in SpOps
         THEN IF Len(st) < 2 THEN << Undefined, Undefined >>
              ELSE SpRpnStack(toks, i + 1,
                              Append(SubSeq(st, 1, Len(st) - 2),
                                     BNode(SpOperator(toks[i]), st[Len(st) - 1], st[Len(st)])))
         ELSE IF toks[i] \in DOMAIN hw_vars
              THEN SpRpnStack(toks, i + 1, Append(st, Atom(hw_vars[toks[i]])))
         ELSE IF toks[i] \in CNumerals
              THEN SpRpnStack(toks, i + 1, Append(st, Atom(toks[i])))
         ELSE << Undefined, Undefined >>

SpWellFormed(toks) == Len(SpRpnStack(toks, 1, <<>>)) = 1
SpRpnTree(toks) == SpRpnStack(toks, 1, <<>>)[1]

\* The text splice_rpn_expression returns for the expression
SpText == splice_rpn_expression(EqSet, SpCounter.xml.name, sp_expr).text

\* C12: for every well-formed RPN availability expression the splicer
\* returns, without raising, text that the C compiler reads as the boolean
\* the RPN expression denotes (operands in order, nesting as in the RPN),
\* and the guard function returns true exactly when that boolean holds; for
\* "$GpuTimestampFrequency UGTE 500" the guard is written and returns true
\* exactly when the hardware variable is >= 500.
C12_SpliceDenotesRpn ==
    /\ (SpWellFormed(sp_expr) /\ sp_pc # "call") =>
          /\ sp_pc \in {"written", "ran"}
          /\ CCondition(SpText).ok
          /\ CCondition(SpText).t = SpRpnTree(sp_expr)
          /\ sp_pc = "ran" => sp_ret = (CValue(SpRpnTree(sp_expr), sp_hw) # 0)
    /\ (sp_expr = << "$GpuTimestampFrequency", "UGTE", "500" >> /\ sp_pc # "call") =>
          /\ sp_pc \in {"written", "ran"}
          /\ sp_pc = "ran" => sp_ret = (sp_hw >= 500)

\* C13: an availability expression with a "$" token that is no hardware
\* variable always makes the splicer raise, and no text written for it
\* calls a counter's read function.
C13_CounterReferenceRaises ==
    ((\E i \in 1..Len(sp_expr) : IsDollar(sp_expr[i]) /\ sp_expr[i] \notin DOMAIN hw_vars)
        /\ sp_pc # "call") =>
          /\ sp_pc = "raised"
          /\ \A i \in 1..Len(sp_res.c) :
                \A r \in { EqSet.read_funcs[n] : n \in DOMAIN EqSet.read_funcs } :
                    sp_res.c[i].x # "if (" \o r \o "(perf, metric_set, accumulator)" \o ") {"

-----------------------------------------------------------------------------
(* SpecHash: Set.__init__ lines 100-101 and Counter.compute_hashes, one    *)
(* call, one token and one assignment at a time.  A hash is kept as the    *)
(* sequence of the words that ' '.join puts into the string; a hash that   *)
(* is still None is a record with set = FALSE.                             *)

HsEquations == { <<"10">>, <<"$A">>, <<"$C">>, <<"$B", "$C", "UADD">> }
HsMaxEquations == { <<>>, <<"$A">>, <<"$B">> }

HsAttrs == [ equation : HsEquations, max_equation : HsMaxEquations, data_type : {"uint64"} ]

HsXmlSet(attrs) ==
    [ name |-> SetNames[1], symbol_name |-> SetSymNames[1],
      underscore_name |-> SetUsNames[1],
      counters |-> [ i \in 1..Len(attrs) |-> XmlCounter(i, attrs[i]) ] ]

HsInputs == { HsXmlSet(attrs) : attrs \in UNION { [1..n -> HsAttrs] : n \in 1..MaxHashCounters } }

\* Counter.__init__ lines 56-57: read_hash = None, max_hash = None
Unset == [ set |-> FALSE, toks |-> <<>> ]
Assigned(toks) == [ set |-> TRUE, toks |-> toks ]

\* A compute_hashes call in progress: the counter, the map() being run
\* ("read": line 74, "max": line 78), the next token and the words so far
HsFrame(c, phase) == [ c |-> c, phase |-> phase, i |-> 1, acc |-> <<>> ]

\* The tokens the frame's map() runs over: equation.split() / max_equation.split()
HsFrameTokens(f) ==
    IF f.phase = "read" THEN hs_set.counters[f.c].equation
    ELSE hs_set.counters[f.c].max_equation

\* lines 63-64: compute_hashes returns at once when read_hash is not None
AlreadyHashed_or_active(hh, st, d) ==
    hh[d].read.set \/ \E j \in 1..Len(st) : st[j].c = d
AlreadyHashed(hh, st, d) == hh[d].read.set

\* line 71: what replace_func returns for a token that names counter d
Replacement_equation(xmlset, hh, d) == xmlset.counters[d].equation
Replacement(xmlset, hh, d) == hh[d].read.toks

\* lines 67-70: the token is replaced when it starts with "$" and is a key of
\* set.counter_vars
NamesCounter(xmlset, token) == IsDollar(token) /\ token \in DOMAIN XmlCounterVars(xmlset)

\* a call of compute_hashes on counter d: a new frame unless it returns at once
EnterCall_always(hh, st, d) == Append(st, HsFrame(d, "read"))
EnterCall(hh, st, d) ==
    IF AlreadyHashed(hh, st, d) THEN st ELSE Append(st, HsFrame(d, "read"))

HsInit ==
    /\ hs_set \in HsInputs
    /\ hs_hash = [ i \in 1..Len(hs_set.counters) |-> [ read |-> Unset, max |-> Unset ] ]
    /\ hs_writes = [ i \in 1..Len(hs_set.counters) |-> [ read |-> 0, max |-> 0 ] ]
    /\ hs_stack = <<>>
    /\ hs_k = 1
    /\ hs_pc = "build"
    /\ EqIdle /\ GenIdle /\ MsIdle /\ SpIdle /\ ExIdle /\ UdIdle

\* lines 100-101: for counter in self.counters: counter.compute_hashes()
HsLoopCall ==
    /\ hs_pc = "build" /\ hs_stack = <<>> /\ hs_k <= Len(hs_set.counters)
    /\ hs_stack' = EnterCall(hs_hash, hs_stack, hs_k)
    /\ hs_k' = hs_k + 1
    /\ UNCHANGED <<hs_set, hs_hash, hs_writes, hs_pc, hsOther>>

\* lines 66-71: replace_func on the next token of the innermost call.  A
\* reference to a counter without read_hash calls its compute_hashes (line
\* 70); when that call has returned the token is replaced by its read_hash.
HsToken ==
    /\ hs_pc = "build" /\ hs_stack # <<>>
    /\ LET f    == Last(hs_stack)
           toks == HsFrameTokens(f)
       IN  /\ f.i <= Len(toks)
           /\ LET token == toks[f.i]
                  d     == XmlCounterVars(hs_set)[token]
                  step(words) == [ f EXCEPT !.i = f.i + 1, !.acc = f.acc \o words ]
              IN  IF ~NamesCounter(hs_set, token)
                  THEN /\ hs_stack' = Append(Front(hs_stack), step(<< token >>))
                       /\ UNCHANGED hs_pc
                  ELSE IF AlreadyHashed(hs_hash, hs_stack, d)
                  THEN /\ hs_stack' = Append(Front(hs_stack), step(Replacement(hs_set, hs_hash, d)))
                       /\ UNCHANGED hs_pc
                  ELSE IF Len(hs_stack) >= MaxHashDepth
                  THEN /\ hs_pc' = "overflow"
                       /\ UNCHANGED hs_stack
                  ELSE /\ hs_stack' = EnterCall(hs_hash, hs_stack, d)
                       /\ UNCHANGED hs_pc
    /\ UNCHANGED <<hs_set, hs_hash, hs_writes, hs_k, hsOther>>

\* lines 74-75: self.read_hash = ' '.join(...); line 77: the call goes on with
\* the max equation when there is one
HsAssignRead ==
    /\ hs_pc = "build" /\ hs_stack # <<>>
    /\ LET f == Last(hs_stack)
       IN  /\ f.phase = "read" /\ f.i > Len(HsFrameTokens(f))
           /\ hs_hash' = [ hs_hash EXCEPT ![f.c].read = Assigned(f.acc) ]
           /\ hs_writes' = [ hs_writes EXCEPT ![f.c].read = @ + 1 ]
           /\ hs_stack' = IF hs_set.counters[f.c].max_equation = <<>>
                          THEN Front(hs_stack)
                          ELSE Append(Front(hs_stack), HsFrame(f.c, "max"))
    /\ UNCHANGED <<hs_set, hs_k, hs_pc, hsOther>>

\* lines 78-79: self.max_hash = ' '.join(...)
HsAssignMax ==
    /\ hs_pc = "build" /\ hs_stack # <<>>
    /\ LET f == Last(hs_stack)
       IN  /\ f.phase = "max" /\ f.i > Len(HsFrameTokens(f))
           /\ hs_hash' = [ hs_hash EXCEPT ![f.c].max = Assigned(f.acc) ]
           /\ hs_writes' = [ hs_writes EXCEPT ![f.c].max = @ + 1 ]
           /\ hs_stack' = Front(hs_stack)
    /\ UNCHANGED <<hs_set, hs_k, hs_pc, hsOther>>

\* the loop of line 100 is through: Set.__init__ returns
HsDone ==
    /\ hs_pc = "build" /\ hs_stack = <<>> /\ hs_k > Len(hs_set.counters)
    /\ hs_pc' = "done"
    /\ UNCHANGED <<hs_set, hs_hash, hs_writes, hs_stack, hs_k, hsOther>>

HsNext == HsLoopCall \/ HsToken \/ HsAssignRead \/ HsAssignMax \/ HsDone

\* The interpreter runs the next statement as long as there is one.
SpecHash == HsInit /\ [][HsNext]_vars /\ WF_vars(HsNext)

-----------------------------------------------------------------------------
(* Claims about compute_hashes.                                            *)

HsN == Len(hs_set.counters)

\* counter c references counter d in its equation / in its max_equation
ReadRef(c, d) == \E i \in 1..Len(hs_set.counters[c].equation) :
    /\ NamesCounter(hs_set, hs_set.counters[c].equation[i])
    /\ XmlCounterVars(hs_set)[hs_set.counters[c].equation[i]] = d
MaxRef(c, d) == \E i \in 1..Len(hs_set.counters[c].max_equation) :
    /\ NamesCounter(hs_set, hs_set.counters[c].max_equation[i])
    /\ XmlCounterVars(hs_set)[hs_set.counters[c].max_equation[i]] = d

\* The counter-reference graph of the Set, and the part of it drawn by the
\* read equations alone
AllRefs == { e \in (1..HsN) \X (1..HsN) : ReadRef(e[1], e[2]) \/ MaxRef(e[1], e[2]) }
ReadRefs == { e \in (1..HsN) \X (1..HsN) : ReadRef(e[1], e[2]) }

RECURSIVE Reach(_, _, _)
\* the counters reached from the counters of `from` by at most n edges
Reach(edges, from, n) ==
    IF n = 0 THEN from
    ELSE Reach(edges, from \cup { e[2] : e \in { x \in edges : x[1] \in from } }, n - 1)

Acyclic(edges) ==
    \A e \in edges : e[1] \notin Reach(edges, {e[2]}, HsN)

HsEnded == hs_pc \in {"done", "overflow"}

\* A reference to a counter declared later in the XML
ForwardRef == \E e \in ReadRefs : e[1] < e[2]

\* C15 as stated, the graph holding every reference between counters of the
\* Set: building the Set ends, and it ends with every hash computed exactly
\* when the counter-reference graph is acyclic.
C15_TerminatesIffAcyclic ==
    HsEnded => (hs_pc = "done" <=> Acyclic(AllRefs))

\* C15, amended: every build of a Set ends, with all hashes computed if the
\* graph of the references made by the read equations is acyclic (forward
\* references included) and otherwise in recursion without bound.
C15_TerminatesIffReadAcyclic ==
    /\ <>HsEnded
    /\ [](HsEnded => (hs_pc = "done" <=> Acyclic(ReadRefs)))
    /\ [](hs_pc = "done" => \A c \in 1..HsN : hs_hash[c].read.set)

C15_Witness ==
    /\ hs_pc = "done"
    /\ \A c \in 1..HsN : hs_hash[c].read.set
    /\ ForwardRef
    /\ ~Acyclic(AllRefs)

RECURSIVE Expand(_, _, _)
\* The tokens with every counter reference replaced by the referenced
\* counter's equation, over and over, at most n deep
Expand(xmlset, toks, n) ==
    IF toks = <<>> THEN <<>>
    ELSE LET token == Head(toks)
             first == IF NamesCounter(xmlset, token) /\ n > 0
                      THEN Expand(xmlset,
                                  xmlset.counters[XmlCounterVars(xmlset)[token]].equation,
                                  n - 1)
                      ELSE << token >>
         IN  first \o Expand(xmlset, Tail(toks), n)

NoCounterToken(toks) == \A i \in 1..Len(toks) : ~NamesCounter(hs_set, toks[i])

\* C16: once a Set with an acyclic reference graph is built, no word of a
\* read_hash or max_hash names a counter of the Set; each hash is the equation
\* with every counter reference replaced, recursively, by the referenced
\* counter's read hash and every other token kept.
C16_HashesFullyReplaced ==
    (hs_pc = "done" /\ Acyclic(AllRefs)) =>
        \A c \in 1..HsN :
            /\ hs_hash[c].read.set
            /\ NoCounterToken(hs_hash[c].read.toks)
            /\ hs_hash[c].read.toks = Expand(hs_set, hs_set.counters[c].equation, HsN)
            /\ hs_hash[c].max.set <=> hs_set.counters[c].max_equation # <<>>
            /\ NoCounterToken(hs_hash[c].max.toks)
            /\ hs_hash[c].max.toks = Expand(hs_set, hs_set.counters[c].max_equation, HsN)

\* a Set built with a reference to a counter declared later whose own hash
\* keeps a "$" token that names no counter
C16_Witness ==
    /\ hs_pc = "done"
    /\ HsN = 2
    /\ hs_set.counters[1].equation = <<"$B", "$C", "UADD">>
    /\ hs_set.counters[2].equation = <<"$C">>
    /\ hs_hash[1].read.toks = <<"$C", "$C", "UADD">>
    /\ Acyclic(AllRefs)

\* C17: in a Set with an acyclic reference graph read_hash and max_hash of a
\* counter are assigned at most once while the Set is built, exactly once
\* when it is built (max_hash only with a max_equation), and an assigned hash
\* never changes.  (Each part reads "the counts are right, or the graph has
\* a cycle".)
C17_AssignedOnce ==
    /\ [](\/ \A c \in 1..HsN :
                /\ hs_writes[c].read <= 1 /\ hs_writes[c].max <= 1
                /\ hs_pc = "done" =>
                     /\ hs_writes[c].read = 1
                     /\ hs_writes[c].max = IF hs_set.counters[c].max_equation = <<>>
                                           THEN 0 ELSE 1
           \/ ~Acyclic(AllRefs))
    /\ [][\/ \A c \in 1..HsN :
                /\ hs_hash[c].read.set => hs_hash'[c].read = hs_hash[c].read
                /\ hs_hash[c].max.set => hs_hash'[c].max = hs_hash[c].max
           \/ ~Acyclic(AllRefs)]_vars

\* a built Set whose first counter is referenced by both others
C17_Witness ==
    /\ hs_pc = "done"
    /\ HsN = 3
    /\ \A c \in 1..HsN : hs_writes[c].read = 1
    /\ ReadRef(2, 1) /\ ReadRef(3, 1) /\ MaxRef(2, 1)
    /\ Acyclic(AllRefs)

-----------------------------------------------------------------------------
(* Claims on the registration function of the metric-set generator.        *)

\* The layouts C22 names for a chipset: a_offset and what b_offset adds
ExpectedLayouts(chipset) ==
    IF chipset = "hsw" THEN { << "1", "45" >> }
    ELSE IF StartsWith(chipset, "acm") \/ StartsWith(chipset, "mtl")
    THEN { << "2", "8" >>, << "2", "38" >> }
    ELSE { << "2", "36" >> }

LayoutsOf(seg) ==
    { i \in 1..Len(seg) : seg[i].k = "layout" }

\* C22: when a run has ended, other than on a malformed availability
\* expression, every Set whose registration function was begun has exactly
\* one layout in it, the one of its chipset: hsw a_offset 1 and b_offset
\* a_offset + 45; acm* and mtl* a_offset 2 and b_offset a_offset + 8 or + 38;
\* any other chipset a_offset 2 and b_offset a_offset + 36.
C22_LayoutSelected ==
    (ms_pc \in {"done", "raised"} /\ ~MsInputError) =>
        \A s \in 1..Len(ms_gen.sets) :
            LET seg == Segment(ms_out, s) IN
            Texts(seg, "registration") # <<>> =>
                /\ Cardinality(LayoutsOf(seg)) = 1
                /\ \A i \in LayoutsOf(seg) :
                      << seg[i].x, seg[i].y >> \in ExpectedLayouts(ms_gen.chipset)

\* The positions of the records of a Set's counter table, ascending
RecordStarts(seg) ==
    LET at == { j \in 1..Len(seg) : seg[j].k = "record" }
    IN  [ n \in 1..Cardinality(at) |->
            CHOOSE j \in at : Cardinality({ i \in at : i <= j }) = n ]

\* The record that starts at j is complete and has an .availability field
RecordHasGuard(seg, j) ==
    \E m \in (j + 1)..Len(seg) :
        /\ seg[m].k = "availability"
        /\ \A n \in (j + 1)..m : seg[n].k # "record"

\* What the guard function of a counter returns with the hardware variables
\* at hw
GuardReturns(set, counter, hw) ==
    LET cond == CCondition(ConditionWords(
                    AvailabilityPieces(set, counter.xml.availability, counter.xml.name)))
    IN  cond.ok /\ CValue(cond.t, hw) # 0

RECURSIVE RegistrationRun(_, _, _, _, _)
\* lines 201-211 as emitted: the loop over _counters[], from record i on:
\* a record whose guard returns false is skipped, any other is copied to
\* counters[n_counters++].  The symbol names registered, in order.
RegistrationRun(seg, set, cs, hw, i) ==
    IF i > Len(RecordStarts(seg)) THEN <<>>
    ELSE LET rest == RegistrationRun(seg, set, cs, hw, i + 1) IN
         IF RecordHasGuard(seg, RecordStarts(seg)[i]) /\ ~GuardReturns(set, cs[i], hw)
         THEN rest
         ELSE << seg[RecordStarts(seg)[i]].x >> \o rest

RECURSIVE Available(_, _, _, _)
\* The counters of the sorted list cs, from i on, that have no availability
\* or whose guard returns true
Available(set, cs, hw, i) ==
    IF i > Len(cs) THEN <<>>
    ELSE LET rest == Available(set, cs, hw, i + 1) IN
         IF cs[i].xml.availability = <<>> \/ GuardReturns(set, cs[i], hw)
         THEN << cs[i].xml.symbol_name >> \o rest
         ELSE rest

\* C23: when a run has ended, other than on a malformed availability
\* expression, every registration function whose counter table was begun is
\* complete, table and loop, and run with any hardware values it registers exactly the counters
\* without a guard or whose guard returns true, in sorted order, n_counters
\* being their number and at most the number of slots allocated.
C23_RegistersAvailable ==
    (ms_pc \in {"done", "raised"} /\ ~MsInputError) =>
        \A s \in 1..Len(ms_gen.sets) :
            LET seg == Segment(ms_out, s)
                set == SetInit(ms_gen.chipset, ms_gen.sets[s])
                cs  == sorted(set.counters)
            IN  Texts(seg, "table") # <<>> =>
                /\ Texts(seg, "table_end") # <<>>
                /\ Len(Texts(seg, "record_end")) = Len(cs)
                /\ Texts(seg, "calloc") = << ToString(Len(cs)) >>
                /\ \A hw \in SpHwValues :
                      LET reg == RegistrationRun(seg, set, cs, hw, 1) IN
                      /\ reg = Available(set, cs, hw, 1)
                      /\ Len(reg) <= Len(cs)

\* Claims on the aliases of the equations generator

\* C27: every #define of the declarations stream aliases a function whose C
\* return type, the type written before its prototype, is the C type of the
\* data_type of the counter the alias is emitted for: a uint64 counter and
\* a float counter of equal hashes are never merged.
C27_AliasKeepsType ==
    \A i \in 1..Len(h_out) : h_out[i].k = "define" =>
        \A v \in Emitting : VisitSym(v) = h_out[i].x =>
            \A j \in 2..Len(h_out) :
                (h_out[j].k = "prototype" /\ h_out[j].x = h_out[i].y) =>
                    h_out[j - 1].x = data_type_to_ctype(CounterAt(VisitCounter(v)).xml.data_type).ctype

\* What compute_hashes takes a token for: a counter of the Set when it is a
\* key of counter_vars, itself otherwise (codegen.py lines 66-72)
HashDenotes(set, tok) ==
    IF IsDollar(tok) /\ tok \in DOMAIN set.counter_vars THEN "counter"
    ELSE IF tok \in DOMAIN hw_vars THEN "hw_var" ELSE "text"

\* What output_rpn_equation_code takes a token for (lines 282-289, 304-307)
CodeDenotes(set, tok) ==
    IF tok \in DOMAIN hw_vars THEN "hw_var"
    ELSE IF IsDollar(tok) /\ tok \in DOMAIN set.counter_vars THEN "counter" ELSE "text"

RECURSIVE Denoted(_, _, _)
\* The equation toks with every operand replaced by what the emitted body
\* reads for it: the C expression of a hardware variable, the equation of
\* the counter whose read function is called, followed for n calls
Denoted(k, toks, n) ==
    IF toks = <<>> THEN <<>>
    ELSE LET tok == Head(toks)
             set == SetAt(k)
             this == IF CodeDenotes(set, tok) = "hw_var" THEN << hw_vars[tok] >>
                     ELSE IF CodeDenotes(set, tok) = "counter" /\ n > 0
                     THEN Denoted(k, set.counters[set.counter_vars[tok]].xml.equation, n - 1)
                     ELSE << tok >>
         IN  this \o Denoted(k, Tail(toks), n)

\* C28: in a run that computed its hashes, every token of every equation
\* denotes the same thing to compute_hashes and to output_rpn_equation_code,
\* and when the run completes, counters of one Set with equal read hashes
\* have equations that denote the same value.
C28_HashAgreesWithCode ==
    hashes # <<>> =>
        /\ \A k \in 1..Len(Counters) :
              \A i \in 1..Len(CounterAt(k).xml.equation) :
                 HashDenotes(SetAt(k), CounterAt(k).xml.equation[i])
                    = CodeDenotes(SetAt(k), CounterAt(k).xml.equation[i])
        /\ gen_pc = "done" =>
              \A k, l \in 1..Len(Counters) :
                 (SetAt(k) = SetAt(l) /\ hashes[k].read_hash = hashes[l].read_hash) =>
                     Denoted(k, CounterAt(k).xml.equation, Len(Counters))
                        = Denoted(l, CounterAt(l).xml.equation, Len(Counters))

\* Claims on the Sets of the metric-set generator

\* The Sets built by Gen.__init__ from the XML file of the run
MsSets == [ s \in 1..Len(ms_gen.sets) |-> SetInit(ms_gen.chipset, ms_gen.sets[s]) ]

\* C26: once the Gen and its Sets are built, the counters of every Set have
\* pairwise different symbol names, counter_vars has as many entries as the
\* Set has counters, and each entry "$name" is the counter whose symbol
\* name is name.
C26_SymbolNamesUnique ==
    ms_pc # "main" =>
        \A s \in 1..Len(MsSets) :
            LET set == MsSets[s] IN
            /\ \A i, j \in 1..Len(set.counters) :
                   set.counters[i].xml.symbol_name = set.counters[j].xml.symbol_name => i = j
            /\ Cardinality(DOMAIN set.counter_vars) = Len(set.counters)
            /\ \A v \in DOMAIN set.counter_vars :
                   "$" \o set.counters[set.counter_vars[v]].xml.symbol_name = v

-----------------------------------------------------------------------------
(* scripts/test_list.py: TestList.expand_subtest, one call.                *)
(* A summary is the sequence of its pieces, a wildcard being one piece;    *)
(* self.doc[test]["arg"][arg_ref] is kept with the subtest that refers to  *)
(* it, as the sequence of the value dictionaries of arg[1], arg[2], ...    *)

\* A test has at most MaxSubtests subtests, a summary at most MaxWildcards
\* wildcards and as many arguments, an argument at most MaxArgValues values.
MaxSubtests == 2
MaxWildcards == 2
MaxArgValues == 2

\* test_name, and the Description of the test
TestName == "igt@core_hello"
TestDescription == "checks foo"

\* The values an argument may have, in the order of sorted(), and what the
\* documentation says of each
ArgNames == << "big", "huge", "small", "tiny" >>
ArgTexts ==
    [ big |-> "large buffers", huge |-> "<huge pages>",
      small |-> "small buffers", tiny |-> "<tiny pages>" ]

\* re.match(r"\<.*\>", text)
IsBracketed(text) == text \in { "<huge pages>", "<tiny pages>" }

\* The wildcards of the summaries, by position, and those line 467 rewrites
WildcardForms == << "%s", "%ld", "%u", "%d" >>
NumericWildcards == { "%d", "%ld", "%lld", "%i", "%u", "%lu", "%llu" }
IsWildcard(piece) == piece \in NumericWildcards \cup { "%s" }

SubtestNames == << "basic", "stress", "fork" >>

RECURSIVE WildcardPieces(_, _)
\* the pieces "-%s-%ld..." of wildcards j..k
WildcardPieces(j, k) ==
    IF j > k THEN <<>> ELSE << "-", WildcardForms[j] >> \o WildcardPieces(j + 1, k)

\* The dictionary of an argument of n values
ArgDict(n) == [ v \in { ArgNames[i] : i \in 1..n } |-> ArgTexts[v] ]

\* A SUBTEST of the documentation: without Summary, or named with k
\* wildcards; its Description refers to arg[1] when there is a wildcard;
\* sizes gives the number of values of each argument defined for it
DocSubtest(s, k, sizes) ==
    [ Summary     |-> IF k < 0 THEN <<>> ELSE << SubtestNames[s] >> \o WildcardPieces(1, k),
      Description |-> IF k > 0 THEN << "checks ", "arg[1]" >> ELSE << TestDescription >>,
      arg         |-> [ j \in 1..Len(sizes) |-> ArgDict(sizes[j]) ] ]

\* What a subtest may be: k wildcards (-1: no Summary) and the sizes of the
\* arguments defined for it
SubtestShapes ==
    { [ k |-> k, sizes |-> <<>> ] : k \in {-1, 0} }
    \cup UNION { { [ k |-> k, sizes |-> sizes ] : sizes \in [1..m -> 0..MaxArgValues] } :
                   k \in 1..MaxWildcards, m \in 0..MaxWildcards }

ExInputs ==
    { [ Description |-> << TestDescription >>,
        subtest |-> [ s \in DOMAIN shape |-> DocSubtest(s, shape[s].k, shape[s].sizes) ] ] :
        shape \in UNION { [1..n -> SubtestShapes] : n \in 1..MaxSubtests } }

\* lines 412-414: test_name, with '@' and the Summary when there is one
summary(subtest) ==
    IF subtest.Summary # <<>> THEN << TestName, "@" >> \o subtest.Summary ELSE << TestName >>

\* line 418: summary.count('%')
num_vars(subtest) ==
    Cardinality({ i \in 1..Len(summary(subtest)) : IsWildcard(summary(subtest)[i]) })

\* lines 448-454: the values of each argument, sorted; none for an argument
\* whose key is above num_vars
ArgArray(subtest) ==
    [ j \in 1..Len(subtest.arg) |->
        IF j - 1 > num_vars(subtest) THEN <<>>
        ELSE LET keys == DOMAIN subtest.arg[j]
                 idx  == { i \in 1..Len(ArgNames) : ArgNames[i] \in keys }
                 Nth(n) == CHOOSE i \in idx : Cardinality({ h \in idx : h < i }) = n - 1
             IN  [ n \in 1..Cardinality(idx) |-> ArgNames[Nth(n)] ] ]

\* line 467: re.sub(r'%(d|ld|lld|i|u|lu|llu)', '%s', summary)
StringWildcards(pieces) ==
    [ i \in 1..Len(pieces) |-> IF pieces[i] \in NumericWildcards THEN "%s" ELSE pieces[i] ]

RECURSIVE Format(_, _)
\* line 485: summary % tuple(args)
Format(pieces, args) ==
    IF pieces = <<>> THEN <<>>
    ELSE IF Head(pieces) = "%s"
         THEN << Head(args) >> \o Format(Tail(pieces), Tail(args))
         ELSE << Head(pieces) >> \o Format(Tail(pieces), args)

\* lines 475-483: args[j] and arg_map[j] of the value arg_val of argument j
ArgOf(subtest, j, arg_val) ==
    IF arg_val \in DOMAIN subtest.arg[j] /\ IsBracketed(subtest.arg[j][arg_val])
    THEN "<" \o arg_val \o ">" ELSE arg_val
ArgMapOf(subtest, j, arg_val) ==
    IF arg_val \in DOMAIN subtest.arg[j] THEN subtest.arg[j][arg_val] ELSE arg_val

\* line 498: re.sub(r"%?\barg\[(\d+)\]", ..., sub_field), over a field that
\* refers to arg[1] at most
SubField(field, arg_map) ==
    [ i \in 1..Len(field) |-> IF field[i] = "arg[1]" THEN arg_map[1] ELSE field[i] ]

\* lines 422-436 and 488-505: the dictionary stored for a summary; a field
\* equal to the field of the test is left out unless allow_inherit
SubtestDict(doc, inherit, text, sub_field) ==
    IF ~inherit /\ sub_field = doc.Description
    THEN [ Summary |-> text ]
    ELSE [ Summary |-> text, Description |-> sub_field ]

\* lines 474-507: the subtest stored for the values at the positions at
Expanded(doc, inherit, subtest, arr, at) ==
    LET n    == num_vars(subtest)
        val  == [ j \in 1..n |-> arr[j][at[j] + 1] ]
        args == [ j \in 1..n |-> ArgOf(subtest, j, val[j]) ]
        map  == [ j \in 1..n |-> ArgMapOf(subtest, j, val[j]) ]
    IN  SubtestDict(doc, inherit, Format(StringWildcards(summary(subtest)), args),
                    SubField(subtest.Description, map))

\* line 511, the test of the while loop: the last value of arr_pos is in use
\* (arr_pos counts from 0) -- compared one value too late
Wraps_late(arr, at, arr_pos) == at[arr_pos + 1] + 1 > Len(arr[arr_pos + 1])

\* line 511, the test of the while loop: the last value of arr_pos is in use
\* (arr_pos counts from 0)
Wraps(arr, at, arr_pos) == at[arr_pos + 1] + 1 >= Len(arr[arr_pos + 1])

RECURSIVE Increment(_, _, _)
\* lines 510-520: the positions after the increment from arr_pos on, and
\* whether the loop goes on
Increment(arr, at, arr_pos) ==
    IF Wraps(arr, at, arr_pos)
    THEN LET reset == [ at EXCEPT ![arr_pos + 1] = 0 ] IN
         IF arr_pos + 1 >= Len(at) THEN [ pos |-> reset, more |-> FALSE ]
         ELSE Increment(arr, reset, arr_pos + 1)
    ELSE [ pos |-> [ at EXCEPT ![arr_pos + 1] = @ + 1 ], more |-> TRUE ]

ExSubtest == ex_doc.subtest[ex_s]

ExInit ==
    /\ ex_doc \in ExInputs
    /\ allow_inherit \in BOOLEAN
    /\ ex_s = 1 /\ arg_array = <<>> /\ ex_pos = <<>> /\ subtest_array = <<>>
    /\ ex_pc = "loop" /\ ex_err = NoErr
    /\ EqIdle /\ GenIdle /\ MsIdle /\ SpIdle /\ HsIdle /\ UdIdle

\* lines 411-471, one subtest of the loop up to the expansion of its
\* wildcards
ExNextSubtest ==
    /\ ex_pc = "loop" /\ ex_s <= Len(ex_doc.subtest)
    /\ LET subtest == ExSubtest
           n       == num_vars(subtest)
           arr     == ArgArray(subtest)
       IN  IF n = 0
           THEN /\ subtest_array' = Append(subtest_array,
                                           SubtestDict(ex_doc, allow_inherit, summary(subtest),
                                                       subtest.Description))
                /\ ex_s' = ex_s + 1
                /\ UNCHANGED <<arg_array, ex_pos, ex_pc, ex_err>>
           ELSE IF Len(arr) < n
           THEN /\ ex_pc' = "exit"
                /\ ex_err' = << "subtest ", summary(subtest), " needs ", n,
                                " arguments but only ", Len(arr), " are defined." >>
                /\ UNCHANGED <<ex_s, arg_array, ex_pos, subtest_array>>
           ELSE /\ arg_array' = arr
                /\ ex_pos' = [ j \in 1..n |-> 0 ]
                /\ ex_pc' = "expand"
                /\ UNCHANGED <<ex_s, subtest_array, ex_err>>
    /\ UNCHANGED <<ex_doc, allow_inherit, exOther>>

\* lines 473-520, one turn of the loop "while 1"
ExExpand ==
    /\ ex_pc = "expand"
    /\ IF \E j \in 1..Len(ex_pos) : ex_pos[j] + 1 > Len(arg_array[j])
       THEN /\ ex_pc' = "raised"
            /\ ex_err' = << "IndexError", "list index out of range" >>
            /\ UNCHANGED <<ex_s, arg_array, ex_pos, subtest_array>>
       ELSE LET inc == Increment(arg_array, ex_pos, 0) IN
            /\ subtest_array' = Append(subtest_array,
                                       Expanded(ex_doc, allow_inherit, ExSubtest, arg_array, ex_pos))
            /\ ex_pos' = inc.pos
            /\ IF inc.more
               THEN UNCHANGED <<ex_s, ex_pc>>
               ELSE ex_s' = ex_s + 1 /\ ex_pc' = "loop"
            /\ UNCHANGED <<arg_array, ex_err>>
    /\ UNCHANGED <<ex_doc, allow_inherit, exOther>>

\* line 522: return subtest_array
ExReturn ==
    /\ ex_pc = "loop" /\ ex_s > Len(ex_doc.subtest)
    /\ ex_pc' = "done"
    /\ UNCHANGED <<ex_doc, allow_inherit, ex_s, arg_array, ex_pos, subtest_array, ex_err, exOther>>

ExNext == ExNextSubtest \/ ExExpand \/ ExReturn

\* The interpreter runs the call to its end
SpecExpand == ExInit /\ [][ExNext]_vars /\ WF_vars(ExNext)

\* Claims on expand_subtest

\* The subtest has wildcards, and each of arg[1]..arg[k] has a value
HasValues(subtest) ==
    /\ num_vars(subtest) >= 1
    /\ Len(subtest.arg) >= num_vars(subtest)
    /\ \A j \in 1..num_vars(subtest) : DOMAIN subtest.arg[j] # {}

RECURSIVE Combinations(_, _)
\* n1 * ... * nk
Combinations(subtest, j) ==
    IF j > num_vars(subtest) THEN 1
    ELSE Cardinality(DOMAIN subtest.arg[j]) * Combinations(subtest, j + 1)

\* The expanded subtests stored for subtest s: those its name is in
StoredFor(s) ==
    { i \in 1..Len(subtest_array) :
        /\ Len(subtest_array[i].Summary) > 2
        /\ subtest_array[i].Summary[3] = SubtestNames[s] }

\* The expanded subtest i is the one of the values f of the arguments
IsOf(i, f) ==
    \A j \in DOMAIN f :
        /\ Len(subtest_array[i].Summary) >= 3 + 2 * j
        /\ subtest_array[i].Summary[3 + 2 * j] \in { f[j], "<" \o f[j] \o ">" }

C29_State ==
    /\ ex_pc # "idle" =>
         \A s \in 1..Len(ex_doc.subtest) : s < ex_s =>
            LET subtest == ex_doc.subtest[s]
                k == num_vars(subtest)
            IN  /\ HasValues(subtest) =>
                     /\ Cardinality(StoredFor(s)) = Combinations(subtest, 1)
                     /\ \A f \in [1..k -> { ArgNames[n] : n \in 1..Len(ArgNames) }] :
                           (\A j \in 1..k : f[j] \in DOMAIN subtest.arg[j]) =>
                               Cardinality({ i \in StoredFor(s) : IsOf(i, f) }) = 1
                /\ (k = 0 /\ subtest.Summary # <<>>) =>
                     /\ Cardinality(StoredFor(s)) = 1
                     /\ \A i \in StoredFor(s) : subtest_array[i].Summary = summary(subtest)
                /\ subtest.Summary = <<>> =>
                     Cardinality({ i \in 1..Len(subtest_array) :
                                     subtest_array[i].Summary = << TestName >> })
                        = Cardinality({ t \in 1..(ex_s - 1) : ex_doc.subtest[t].Summary = <<>> })
    /\ ex_pc \in { "exit", "raised" } =>
         (num_vars(ExSubtest) >= 1 /\ ~HasValues(ExSubtest))

\* C29: the call ends, and once the loop is past a subtest, a subtest of k
\* >= 1 wildcards whose arg[1]..arg[k] have n1..nk >= 1 values has exactly
\* n1 * ... * nk expanded subtests in subtest_array, one for each combination
\* of values, and a subtest without wildcards has exactly one; the call is
\* ended by sys.exit or an exception only at a subtest with wildcards that
\* lacks a value for one of them.
C29_ExpandsEveryCombination ==
    /\ []C29_State
    /\ <>(ex_pc \in { "done", "exit", "raised" })

\* a call returned after expanding a subtest of two wildcards with two
\* values each into four subtests, besides a subtest without wildcards
C29_Witness ==
    /\ ex_pc = "done"
    /\ Len(ex_doc.subtest) = 2
    /\ num_vars(ex_doc.subtest[1]) = 0
    /\ num_vars(ex_doc.subtest[2]) = 2
    /\ HasValues(ex_doc.subtest[2])
    /\ Combinations(ex_doc.subtest[2], 1) = 4
    /\ Len(subtest_array) = 5
    /\ subtest_array[3].Summary =
          << TestName, "@", "stress", "-", "<huge>", "-", "big" >>

-----------------------------------------------------------------------------
(* .gitlab-ci/list_undocumented_tests.py, one run.                         *)
(* A line of the output of "<test> --describe" is the sequence of its      *)
(* words, line.split(' '); a text is the sequence of its words and the     *)
(* blanks between them.                                                    *)

\* The test list names at most MaxTests binaries, and a binary describes
\* itself in at most MaxDescribeLines lines.
MaxTests == 2
MaxDescribeLines == 3

\* get_testlist, lines 12-19: the names of the test binaries
TestBinaries == << "core_hello", "kms_flip", "gem_exec" >>

\* The lines a binary may write: a line that opens a subtest, the text of
\* a description, the text written for a missing description, an empty line
DescribeLines ==
    { << "SUB", "basic", "../tests/test.c:10:" >>, << "SUB", "stress", "../tests/test.c:20:" >>,
      << "does", "foo" >>, << "NO", "DOCUMENTATION!" >>, <<>> }

UdInputs ==
    UNION { [1..n -> UNION { [1..l -> DescribeLines] : l \in 0..MaxDescribeLines }] :
              n \in 1..MaxTests }

\* line.startswith("SUB ")
StartsWithSub(line) == Len(line) > 1 /\ line[1] = "SUB"

RECURSIVE LineText(_)
\* the text of a line: its words with one blank between two of them
LineText(line) ==
    IF Len(line) <= 1 THEN line
    ELSE << Head(line), " " >> \o LineText(Tail(line))

\* "NO DOCUMENTATION!" in description
Undocumented(text) ==
    \E i \in 1..Len(text) :
        /\ i + 2 <= Len(text)
        /\ text[i] = "NO" /\ text[i + 1] = " " /\ text[i + 2] = "DOCUMENTATION!"

\* Subtest(name, description)
Subtest(name, text) == [ name |-> name, description |-> text ]

\* if name / if not name: None and '' are false
Truthy(name) == name # None /\ name # ""

RECURSIVE Report(_, _, _)
\* main, lines 54-59: what the loop over subtests[i..] prints for test
Report(test, subtests, i) ==
    IF i > Len(subtests) THEN <<>>
    ELSE (IF Truthy(subtests[i].name) /\ Undocumented(subtests[i].description)
          THEN << << test, "@", subtests[i].name >> >> ELSE <<>>)
         \o Report(test, subtests, i + 1)

UdInit ==
    /\ ud_tests \in UdInputs
    /\ ud_t = 1 /\ ud_line = 0 /\ ud_output = <<>>
    /\ description = <<>> /\ current_subtest = None
    /\ ud_printed = <<>> /\ ud_pc = "describe"
    /\ EqIdle /\ GenIdle /\ MsIdle /\ SpIdle /\ HsIdle /\ ExIdle

\* get_subtests, lines 29-35: one line of the output of the test
UdReadLine ==
    /\ ud_pc = "describe" /\ ud_line < Len(ud_tests[ud_t])
    /\ LET line == ud_tests[ud_t][ud_line + 1] IN
         IF StartsWithSub(line)
         THEN /\ ud_output' = Append(ud_output, Subtest(current_subtest, description))
              /\ description' = <<>>
              /\ current_subtest' = line[2]
         ELSE /\ description' = description \o LineText(line)
              /\ UNCHANGED <<ud_output, current_subtest>>
    /\ ud_line' = ud_line + 1
    /\ UNCHANGED <<ud_tests, ud_t, ud_printed, ud_pc, udOther>>

\* get_subtests, lines 37-39: the last Subtest, and the return
UdReturn ==
    /\ ud_pc = "describe" /\ ud_line = Len(ud_tests[ud_t])
    /\ ud_output' = Append(ud_output, Subtest(current_subtest, description))
    /\ ud_pc' = "report"
    /\ UNCHANGED <<ud_tests, ud_t, ud_line, description, current_subtest, ud_printed, udOther>>

\* main, lines 47-59: what is printed for the test, then the call of
\* get_subtests for the next test (lines 23-27)
UdReport ==
    /\ ud_pc = "report"
    /\ ud_printed' = ud_printed
           \o (IF ud_output # <<>> /\ Truthy(ud_output[1].name)
               THEN << << TestBinaries[ud_t] >> >> ELSE <<>>)
           \o Report(TestBinaries[ud_t], ud_output, 1)
    /\ IF ud_t < Len(ud_tests)
       THEN /\ ud_t' = ud_t + 1 /\ ud_line' = 0 /\ ud_output' = <<>>
            /\ description' = <<>> /\ current_subtest' = None
            /\ ud_pc' = "describe"
       ELSE /\ ud_pc' = "done"
            /\ UNCHANGED <<ud_t, ud_line, ud_output, description, current_subtest>>
    /\ UNCHANGED <<ud_tests, udOther>>

UdNext == UdReadLine \/ UdReturn \/ UdReport

SpecUndoc == UdInit /\ [][UdNext]_vars

\* Claims on list_undocumented_tests.py

\* The lines of test t that open a subtest, in order
SubLinesOf(t) ==
    { i \in 1..Len(ud_tests[t]) : StartsWithSub(ud_tests[t][i]) }

\* The lines of test t from line i on up to the next line that opens a
\* subtest: those of one description
DescriptionLines(t, i) ==
    { j \in i..Len(ud_tests[t]) : \A h \in i..j : ~StartsWithSub(ud_tests[t][h]) }

\* Test t has no top-level description: no word before its first subtest
NoTopLevelDescription(t) ==
    \A j \in DescriptionLines(t, 1) : ud_tests[t][j] = <<>>

\* The description lines of the subtest opened at line i of test t hold
\* "NO DOCUMENTATION!"
SubtestUndocumented(t, i) ==
    \E j \in DescriptionLines(t, i + 1) : ud_tests[t][j] = << "NO", "DOCUMENTATION!" >>

Printed(text) == \E i \in 1..Len(ud_printed) : ud_printed[i] = text

\* C30: when get_subtests returns, the first Subtest is the top-level entry
\* (it has no name) and the later ones are named by the SUB lines, in order;
\* when the run is over, the bare name of a test was printed exactly when
\* the test has no top-level description, and "<test>@<subtest>" exactly
\* for the subtests whose description holds "NO DOCUMENTATION!".
C30_ReportsUndocumented ==
    /\ ud_pc = "report" =>
         /\ ud_output[1].name = None
         /\ Len(ud_output) = 1 + Cardinality(SubLinesOf(ud_t))
         /\ \A i \in SubLinesOf(ud_t) :
               ud_output[1 + Cardinality({ h \in SubLinesOf(ud_t) : h <= i })].name
                  = ud_tests[ud_t][i][2]
    /\ ud_pc = "done" =>
         \A t \in 1..Len(ud_tests) :
            /\ Printed(<< TestBinaries[t] >>) <=> NoTopLevelDescription(t)
            /\ \A name \in { "basic", "stress" } :
                  Printed(<< TestBinaries[t], "@", name >>)
                     <=> \E i \in SubLinesOf(t) :
                            ud_tests[t][i][2] = name /\ SubtestUndocumented(t, i)

====
